---- MODULE Spec2Model ----
(***************************************************************************)
(* The tick function of isola-reborn (client/src/lib/game-engine.ts):      *)
(* advanceGameTick, performWork and the module-level cooldown timers.      *)
(*                                                                         *)
(* Numbers.  JavaScript numbers that carry fractions (vitals, stockpiles)  *)
(* are fixed-point integers counted in millionths (Unit = 1.0), so that    *)
(* every rate of the source (0.04, 0.025, 0.15, 0.6, 1.2, 0.08, and the    *)
(* yields 0.05 * (1 + skill * 0.015) ...) is an exact integer.  World      *)
(* coordinates are whole world units.  Math.random() draws are             *)
(* nondeterministic choices: a probability roll is a BOOLEAN, a continuous *)
(* draw is a choice from a sample set that holds both ends of its range.   *)
(*                                                                         *)
(* One call of advanceGameTick is the sequence of steps                    *)
(*   BeginTick, ProcessVillager (once per living member of each tribe),    *)
(*   Immigration, TribeSplitting, RandomWorldEvents, FinishTick            *)
(* and pc is the position inside the call; pc = "ready" is the state       *)
(* between two calls, where the variables hold what the call returned, and *)
(* pc = "loaded" the state in which the host has loaded a snapshot from    *)
(* the server (pages/Game.tsx) and no call was made on it yet.             *)
(***************************************************************************)
EXTENDS Integers, Sequences, FiniteSets, TLC

VARIABLES
    state,               \* GameState: gameTick and the three feature toggles
    tribes,              \* newTribes (between calls: the tribe list)
    villagers,           \* newVillagers (between calls: the villager list)
    worldEvents,         \* newEvents (between calls: the WorldEvent list)
    gameEvents,          \* the GameEvent log of the current / last call
    lastImmigrationTick, \* module-level cooldown timer
    lastSplitTick,       \* module-level cooldown timer
    dangers,             \* RESOURCES.dangers, rebuilt at the start of a call
    resources,           \* RESOURCES.trees and RESOURCES.rocks, the resource nodes
    pc,                  \* position inside advanceGameTick
    ti,                  \* index of the tribe the villager loop is at
    tribeVillagers,      \* the roster snapshot taken for tribes[ti]
    vi,                  \* index into tribeVillagers
    calls,               \* number of advanceGameTick calls started
    currentVillagers,    \* the objects of the array the call was given, as they are now
    origin,              \* origin[i]: the index in currentVillagers of the object that
                         \* newVillagers[i] refers to, 0 when it is an object of the call
    rare,                \* number of steps in which a low-probability roll succeeded
    history              \* the death, immigration and tribeSplit events of the calls so far

vars == <<state, tribes, villagers, worldEvents, gameEvents, lastImmigrationTick,
          lastSplitTick, dangers, resources, pc, ti, tribeVillagers, vi, calls, currentVillagers,
          origin, rare, history>>

\* ---------------------------------------------------------------- bounds
MaxCalls == 2
MaxRare == 1

\* ---------------------------------------------------------------- units
Unit == 1000000
NULL == -999999

\* ---------------------------------------------------------------- constants
MOVEMENT_SPEED == 2
HUNGER_RATE == 40000
ENERGY_RATE == 25000
HEALING_RATE == 150000
MAP_WIDTH == 3200
MAP_HEIGHT == 2400
MIN_IMMIGRATION_INTERVAL == 2000
MIN_POP_FOR_SPLIT == 8
MIN_SPLIT_INTERVAL == 5000
STARVATION_THRESHOLD == 95000000
STARVATION_DAMAGE == 150000
SLEEP_ENERGY_RATE == 600000
VITAL_MAX == 100000000
DANGER_RADIUS == 80
ARRIVAL_RADIUS == 8
FLEE_DONE_RADIUS == 10
FLEE_DISTANCE == 150
EAT_FOOD_COST == 80000
EAT_HUNGER_RELIEF == 1200000
EAT_DONE_HUNGER == 5000000
HUNGRY_THRESHOLD == 65000000
EXHAUSTED_THRESHOLD == 15000000
TASK_ROLL_RANGE == 30
SPLIT_TERRITORY_RADIUS == 150
MIN_TRIBE_DISTANCE == 300
MAX_SPLIT_ATTEMPTS == 30

\* ---------------------------------------------------------------- helpers
Min(a, b) == IF a < b THEN a ELSE b
Max(a, b) == IF a > b THEN a ELSE b

\* clamp(val, min, max) = Math.max(min, Math.min(max, val))
clamp(val, lo, hi) == Max(lo, Min(hi, val))

\* dist(x1,y1,x2,y2)^2; every use of dist in the source compares it with a
\* constant, which is done on the squares.
DistSq(x1, y1, x2, y2) == (x2 - x1) * (x2 - x1) + (y2 - y1) * (y2 - y1)

RECURSIVE SqrtBits(_, _, _)
SqrtBits(n, r, bit) ==
    IF bit = 0 THEN r
    ELSE IF r + bit <= n \div (r + bit) THEN SqrtBits(n, r + bit, bit \div 2)
         ELSE SqrtBits(n, r, bit \div 2)
\* floor(sqrt(n)) for 0 <= n < 2^31
ISqrt(n) == SqrtBits(n, 0, 32768)

\* Math.round of the rational a / b (b > 0): floor(a/b + 1/2)
RoundDiv(a, b) == (2 * a + b) \div (2 * b)

\* cos(atan2(dy, dx)) * len and sin(atan2(dy, dx)) * len, rounded to the unit
\* grid; atan2(0, 0) = 0, so the direction of a zero vector is (1, 0).
AlongX(dx, dy, len) ==
    IF dx = 0 /\ dy = 0 THEN len
    ELSE IF dy = 0 THEN (IF dx > 0 THEN len ELSE -len)
    ELSE IF dx = 0 THEN 0
    ELSE RoundDiv(len * dx * 10, ISqrt((dx * dx + dy * dy) * 100))
AlongY(dx, dy, len) ==
    IF dx = 0 /\ dy = 0 THEN 0
    ELSE IF dx = 0 THEN (IF dy > 0 THEN len ELSE -len)
    ELSE IF dy = 0 THEN 0
    ELSE RoundDiv(len * dy * 10, ISqrt((dx * dx + dy * dy) * 100))

\* Array.prototype.findIndex on an id (0 stands for the source's -1)
FindIndexById(s, id) ==
    IF \E i \in 1..Len(s) : s[i].id = id
    THEN CHOOSE i \in 1..Len(s) : s[i].id = id /\ \A j \in 1..(i - 1) : s[j].id # id
    ELSE 0

Range(s) == {s[i] : i \in 1..Len(s)}

\* ---------------------------------------------------------------- random draws
\* Math.random() in millionths: both ends of [0, 1)
Random == {0, 999999}
\* (Math.random() - 0.5) * 40 on each axis, the sleeping-place jitter
SleepJitter == {<<-20, 19>>, <<19, -20>>}
\* Math.random() * 160 and Math.random() * 80, the farming-place offsets
FarmOffset == {<<0, 79>>, <<159, 0>>}
\* (Math.random() - 0.5) * 15 on each axis, the idle wander
WanderJitter == {<<-7, 7>>, <<7, -7>>}
\* accidentTypes
AccidentTypes == {"fell from a tree", "had a hunting accident",
                  "was struck by lightning", "drowned crossing a river"}

\* Date.now(), counted from a recent epoch so that ids fit the checker's
\* integers, and the Math.floor(Math.random() * 10000) added to it for an id
DateNow == {1000000}
IdOffsets == {0, 1}
\* the draws that make an immigrant: one value of Math.random() used for every
\* numeric field, the side of the map, and two traits of TRAIT_POOL
ImmigrantDraws ==
    {[r |-> 0, west |-> TRUE, traits |-> {"Cautious", "Lucky"}],
     [r |-> 999999, west |-> FALSE, traits |-> {"Reckless", "Hardworking"}]}
\* 150 + Math.random() * (MAP_WIDTH - 300), 150 + Math.random() * (MAP_HEIGHT - 300)
CenterSamples == {<<150, 150>>, <<3049, 2249>>}
\* (Math.random() - 0.5) * 60 on each axis, the place of a splitter
SplitJitter == {<<-30, 29>>}
\* TRIBE_COLORS
TRIBE_COLORS == <<"#4a90a4", "#a44a4a", "#4aa45a", "#a4904a",
                  "#7a4aa4", "#4aa4a4", "#a4744a", "#6a6a6a">>

\* ---------------------------------------------------------------- RESOURCES
Trees == <<
    <<150, 150>>, <<250, 100>>, <<100, 250>>, <<300, 200>>,
    <<350, 120>>, <<200, 300>>, <<120, 380>>,
    <<2800, 2000>>, <<2700, 2100>>, <<2850, 1900>>, <<2950, 2050>>,
    <<3000, 2200>>, <<2650, 1950>>,
    <<1200, 1000>>, <<1300, 950>>, <<1150, 1080>>, <<1400, 1020>>,
    <<1600, 1200>>, <<1550, 1150>>, <<1700, 1250>>,
    <<400, 1800>>, <<350, 1900>>, <<500, 1750>>, <<300, 2000>>,
    <<2400, 400>>, <<2500, 350>>, <<2350, 500>>, <<2600, 450>>,
    <<2800, 1200>>, <<2900, 1150>>, <<2750, 1300>>,
    <<400, 1200>>, <<350, 1100>>, <<500, 1300>> >>
Rocks == <<
    <<2400, 200>>, <<2600, 100>>, <<2700, 240>>, <<2500, 300>>,
    <<200, 1600>>, <<100, 1700>>, <<300, 1550>>,
    <<1600, 400>>, <<1700, 350>>, <<1550, 450>>,
    <<1800, 1800>>, <<1900, 1750>>, <<1750, 1850>>,
    <<2800, 800>>, <<2900, 750>>, <<2700, 850>>,
    <<600, 600>>, <<700, 550>>, <<550, 650>> >>

\* nodes.reduce((nearest, n) => d < nearest.dist ? n : nearest, {nodes[0], Infinity}):
\* the first node at the least distance from (x, y)
NearestNode(nodes, x, y) ==
    LET i == CHOOSE i \in 1..Len(nodes) :
                /\ \A j \in 1..Len(nodes) :
                      DistSq(x, y, nodes[i][1], nodes[i][2]) <= DistSq(x, y, nodes[j][1], nodes[j][2])
                /\ \A j \in 1..(i - 1) :
                      DistSq(x, y, nodes[j][1], nodes[j][2]) > DistSq(x, y, nodes[i][1], nodes[i][2])
    IN nodes[i]

\* ---------------------------------------------------------------- records
DeathEvent(tick, tribeId, villagerId) ==
    [tick |-> tick, type |-> "death", tribeId |-> tribeId, villagerId |-> villagerId]

\* The working state of one pass of the villager loop body: the copy
\* `villager`, the tribe record `tribe` (an element of newTribes, changed in
\* place by performWork), the events pushed, whether the pass ended in
\* `continue` after a death, whether low-probability rolls may succeed in
\* this pass (luck), whether one did (used), and whether the pass threw.
Ctx(v, t, luck) ==
    [v |-> v, t |-> t, ev |-> <<>>, dead |-> FALSE, luck |-> luck, used |-> FALSE,
     threw |-> FALSE]

\* faulty variant: the `continue` forgotten, the pass goes on after the death
Die_NoContinue(c, cause, tick) ==
    [c EXCEPT !.v.isDead = TRUE, !.v.causeOfDeath = cause,
              !.ev = Append(@, [tick |-> tick, type |-> "death", tribeId |-> c.t.id,
                                villagerId |-> c.v.id])]
\* villager.isDead = true; causeOfDeath = ...; gameEvents.push(death); continue
Die(c, cause, tick) ==
    [c EXCEPT !.v.isDead = TRUE, !.v.causeOfDeath = cause,
              !.ev = Append(@, DeathEvent(tick, c.t.id, c.v.id)),
              !.dead = TRUE]

\* a low-probability roll succeeded
Spend(c) == [c EXCEPT !.used = TRUE]

\* ---------------------------------------------------------------- 1. vital decay
\* faulty variant: the rate taken a hundredfold (4 a tick)
DecayHunger_Hundredfold(hunger) == Min(VITAL_MAX, hunger + 100 * HUNGER_RATE)
DecayHunger(hunger) == Min(VITAL_MAX, hunger + HUNGER_RATE)
DecayEnergy(energy) == Max(0, energy - ENERGY_RATE)
StarveHealth(health) == Max(0, health - STARVATION_DAMAGE)

VitalDecay(c) ==
    [c EXCEPT !.v.hunger = DecayHunger(@), !.v.energy = DecayEnergy(@)]

Starvation(c, tick) ==
    IF c.v.hunger >= STARVATION_THRESHOLD
    THEN LET h == [c EXCEPT !.v.health = StarveHealth(@)]
         IN IF h.v.health <= 0 THEN {Die(h, "starvation", tick)}
            ELSE IF h.v.hunger >= VITAL_MAX /\ h.luck
                 THEN {h, Die(Spend(h), "starvation", tick)}
                 ELSE {h}
    ELSE {c}

\* faulty variant: the cap at 100 forgotten
SleepEnergy_NoCap(energy) == energy + SLEEP_ENERGY_RATE
SleepEnergy(energy) == Min(VITAL_MAX, energy + SLEEP_ENERGY_RATE)
SleepHealth(health) == Min(VITAL_MAX, health + HEALING_RATE)

SleepRecovery(c) ==
    IF c.dead \/ c.v.action # "sleeping" THEN c
    ELSE [c EXCEPT !.v.energy = SleepEnergy(@), !.v.health = SleepHealth(@)]

\* ---------------------------------------------------------------- 2. danger
\* RESOURCES.dangers.find(d => dist(villager.posX, villager.posY, d.x, d.y) < 80):
\* the index of the first danger in range, 0 if there is none
NearbyDanger(ds, v) ==
    LET near(i) == DistSq(v.posX, v.posY, ds[i].x, ds[i].y) < DANGER_RADIUS * DANGER_RADIUS
    IN IF \E i \in 1..Len(ds) : near(i)
       THEN CHOOSE i \in 1..Len(ds) : near(i) /\ \A j \in 1..(i - 1) : ~near(j)
       ELSE 0

FleeTargetX(v, d) ==
    clamp(v.posX + AlongX(v.posX - d.x, v.posY - d.y, FLEE_DISTANCE), 50, MAP_WIDTH - 50)
FleeTargetY(v, d) ==
    clamp(v.posY + AlongY(v.posX - d.x, v.posY - d.y, FLEE_DISTANCE), 50, MAP_HEIGHT - 50)

\* 15 + Math.random() * 20 * severity
WildlifeDamage(r, severity) == 15 * Unit + r * 20 * severity
\* 5 + Math.random() * 10
DiseaseDamage(r) == 5 * Unit + r * 10
\* (20 + Math.random() * 40) * severity, severity 0.5 for the Lucky
AccidentDamage(r, lucky) == IF lucky THEN (20 * Unit + r * 40) \div 2 ELSE 20 * Unit + r * 40

\* villager.health -= damage; if (villager.health <= 0) { die; continue }
Hurt(c, damage, cause, tick) ==
    LET h == [c EXCEPT !.v.health = @ - damage]
    IN IF h.v.health <= 0 THEN Die(h, cause, tick) ELSE h

DangerStep(c, ds, tick) ==
    IF c.dead THEN {c}
    ELSE LET k == NearbyDanger(ds, c.v)
         IN IF k = 0 \/ c.v.action = "fleeing" THEN {c}
            ELSE LET d == ds[k]
                     noticed == [c EXCEPT !.v.action = "fleeing",
                                          !.v.targetX = FleeTargetX(c.v, d),
                                          !.v.targetY = FleeTargetY(c.v, d)]
                     hurt == IF ~c.luck THEN {}
                             ELSE IF d.type = "wildAnimal"
                             THEN {Hurt(Spend(c), WildlifeDamage(r, d.severity),
                                        "wildlife attack", tick) : r \in Random}
                             ELSE IF d.type = "disease"
                             THEN {Hurt(Spend(c), DiseaseDamage(r), "disease", tick) : r \in Random}
                             ELSE {}
                 IN {noticed, c} \cup hurt

\* ---------------------------------------------------------------- 3. accidents
AccidentStep(c, tick) ==
    IF c.dead \/ ~c.luck THEN {c}
    ELSE {c} \cup {Hurt(Spend(c), AccidentDamage(r, "Lucky" \in c.v.traits), a, tick) :
                      r \in Random, a \in AccidentTypes}

\* ---------------------------------------------------------------- 4. decision
\* faulty variant: the target is not cleared
Idle_KeepTarget(v) == [v EXCEPT !.action = "idle"]
\* villager.action = 'idle'; villager.targetX = null; villager.targetY = null
Idle(v) == [v EXCEPT !.action = "idle", !.targetX = NULL, !.targetY = NULL]

\* Emergency: eat if hungry and the tribe has food
EatRule(c) ==
    IF c.v.hunger > HUNGRY_THRESHOLD /\ c.v.action # "eating" /\ c.t.food > 0
    THEN [c EXCEPT !.v.action = "eating", !.v.targetX = c.t.centerX, !.v.targetY = c.t.centerY]
    ELSE c

\* faulty variant: the sleep rule written as the `else` of the eat rule
SleepRule_ElseIf(c) ==
    IF c.v.energy < EXHAUSTED_THRESHOLD /\ c.v.action \notin {"sleeping", "eating"}
    THEN {[c EXCEPT !.v.action = "sleeping",
                    !.v.targetX = c.t.centerX + j[1], !.v.targetY = c.t.centerY + j[2]] :
             j \in SleepJitter}
    ELSE {c}
\* Emergency: sleep if exhausted
SleepRule(c) ==
    IF c.v.energy < EXHAUSTED_THRESHOLD /\ c.v.action # "sleeping"
    THEN {[c EXCEPT !.v.action = "sleeping",
                    !.v.targetX = c.t.centerX + j[1], !.v.targetY = c.t.centerY + j[2]] :
             j \in SleepJitter}
    ELSE {c}

\* JavaScript truthiness of a target coordinate: neither null nor 0
Truthy(x) == x # NULL /\ x # 0

\* faulty variant: a flight never ends
FleeDone_Never(c) == c
\* Done fleeing?
FleeDone(c) ==
    IF /\ c.v.action = "fleeing"
       /\ Truthy(c.v.targetX) /\ Truthy(c.v.targetY)
       /\ DistSq(c.v.posX, c.v.posY, c.v.targetX, c.v.targetY) < FLEE_DONE_RADIUS * FLEE_DONE_RADIUS
    THEN [c EXCEPT !.v = Idle(@)]
    ELSE c

\* the band of the priority weights the roll falls in
TaskOf(roll, p) ==
    IF roll < p.priorityFarming THEN "farming"
    ELSE IF roll < p.priorityFarming + p.priorityBuilding THEN "building"
    ELSE IF roll < p.priorityFarming + p.priorityBuilding + p.priorityGathering THEN "gathering"
    ELSE "research"

\* the tasks the draw can give a villager of tribe t: roll ranges over [0, 30)
SelectableTasks(t) == {TaskOf(roll, t) : roll \in 0..(TASK_ROLL_RANGE - 1)}

\* the node list a task looks its target up in (none for farming and research)
TaskNodes(task) ==
    IF task = "building" THEN resources.rocks
    ELSE IF task = "gathering" THEN resources.trees
    ELSE <<<<0, 0>>>>

\* the targets a task can be given
TaskTargets(task, t) ==
    IF task = "farming"
    THEN {<<t.centerX - 80 + o[1], t.centerY + 40 + o[2]>> : o \in FarmOffset}
    ELSE IF task \in {"building", "gathering"}
    THEN {NearestNode(TaskNodes(task), t.centerX, t.centerY)}
    ELSE {<<t.centerX, t.centerY - 30>>}

\* faulty variant: a task is picked whatever the villager is doing
PickTask_Always(c) ==
    UNION {IF TaskNodes(task) = <<>>
           THEN {[c EXCEPT !.v.action = task, !.threw = TRUE]}
           ELSE {[c EXCEPT !.v.action = task, !.v.targetX = xy[1], !.v.targetY = xy[2]] :
                    xy \in TaskTargets(task, c.t)} :
           task \in SelectableTasks(c.t)}
\* faulty variant: an idle villager is left idle
PickTask_Never(c) == {c}
\* Pick new task if idle: roll = Math.random() * 30.  On an empty node list
\* reduce returns its initial value { rock: RESOURCES.rocks[0], dist: Infinity },
\* whose rock is undefined: villager.action is set and reading .x throws.
PickTask(c) ==
    IF c.v.action = "idle"
    THEN UNION {IF TaskNodes(task) = <<>>
                THEN {[c EXCEPT !.v.action = task, !.threw = TRUE]}
                ELSE {[c EXCEPT !.v.action = task, !.v.targetX = xy[1], !.v.targetY = xy[2]] :
                         xy \in TaskTargets(task, c.t)} :
                task \in SelectableTasks(c.t)}
    ELSE {c}

DecisionStep(c) ==
    IF c.dead THEN {c}
    ELSE UNION {PickTask(FleeDone(s)) : s \in SleepRule(EatRule(c))}

\* ---------------------------------------------------------------- performWork
\* skillBonus folded into the yield: base * (1 + skill * 0.015)
FarmYield(skill) == 50000 + 750 * skill
GatherYield(skill) == 40000 + 600 * skill
BuildYield(skill) == 20000 + 300 * skill
ResearchYield(skill) == 15000 + 225 * skill
\* faulty variant: the cap at 100 forgotten
SkillUp_NoCap(skill) == skill + 1
SkillUp(skill) == Min(100, skill + 1)

\* faulty variant: the floor at 0 forgotten
EatFood_NoFloor(food) == food - EAT_FOOD_COST
EatFood(food) == Max(0, food - EAT_FOOD_COST)
\* faulty variant: the floor at 0 forgotten
EatHunger_NoFloor(hunger) == hunger - EAT_HUNGER_RELIEF
EatHunger(hunger) == Max(0, hunger - EAT_HUNGER_RELIEF)

Eat(c) ==
    IF c.t.food > 0
    THEN LET e == [c EXCEPT !.t.food = EatFood(@), !.v.hunger = EatHunger(@)]
         IN IF e.v.hunger <= EAT_DONE_HUNGER THEN [e EXCEPT !.v = Idle(@)] ELSE e
    ELSE [c EXCEPT !.v = Idle(@)]

performWork(c) ==
    IF c.v.action = "eating" THEN {Eat(c)}
    ELSE IF c.v.action = "gathering"
    THEN LET w == [c EXCEPT !.t.wood = @ + GatherYield(c.v.skillGathering)]
         IN {w} \cup (IF w.luck THEN {[Spend(w) EXCEPT !.v.skillGathering = SkillUp(@)]} ELSE {})
    ELSE IF c.v.action = "farming"
    THEN LET w == [c EXCEPT !.t.food = @ + FarmYield(c.v.skillFarming)]
         IN {w} \cup (IF w.luck THEN {[Spend(w) EXCEPT !.v.skillFarming = SkillUp(@)]} ELSE {})
    ELSE IF c.v.action = "building"
    THEN LET w == [c EXCEPT !.t.stone = @ + BuildYield(c.v.skillBuilding)]
         IN {w} \cup (IF w.luck THEN {[Spend(w) EXCEPT !.v.skillBuilding = SkillUp(@)]} ELSE {})
    ELSE IF c.v.action = "research"
    THEN LET w == [c EXCEPT !.t.techPoints = @ + ResearchYield(c.v.skillResearch)]
         IN {w} \cup (IF w.luck THEN {[Spend(w) EXCEPT !.v.skillResearch = SkillUp(@)]} ELSE {})
    ELSE {c}

\* ---------------------------------------------------------------- 5. movement
Speed(v) == IF v.action = "fleeing" THEN MOVEMENT_SPEED * 2 ELSE MOVEMENT_SPEED

StepToward(v) ==
    [v EXCEPT !.posX = clamp(v.posX + AlongX(v.targetX - v.posX, v.targetY - v.posY, Speed(v)),
                             10, MAP_WIDTH - 10),
              !.posY = clamp(v.posY + AlongY(v.targetX - v.posX, v.targetY - v.posY, Speed(v)),
                             10, MAP_HEIGHT - 10)]

\* Random chance to finish task
FinishTask(c) ==
    {c} \cup (IF c.luck THEN {[Spend(c) EXCEPT !.v = Idle(@)]} ELSE {})

\* Wander near tribe center
Wander(c) ==
    {c} \cup (IF ~c.luck THEN {}
              ELSE {[Spend(c) EXCEPT
                       !.v.posX = clamp(@ + j[1], c.t.centerX - c.t.territoryRadius,
                                        c.t.centerX + c.t.territoryRadius),
                       !.v.posY = clamp(@ + j[2], c.t.centerY - c.t.territoryRadius,
                                        c.t.centerY + c.t.territoryRadius)] :
                       j \in WanderJitter})

MovementStep(c) ==
    IF c.dead \/ c.threw THEN {c}
    ELSE IF c.v.targetX # NULL /\ c.v.targetY # NULL
    THEN IF DistSq(c.v.posX, c.v.posY, c.v.targetX, c.v.targetY) > ARRIVAL_RADIUS * ARRIVAL_RADIUS
         THEN {[c EXCEPT !.v = StepToward(@)]}
         ELSE UNION {FinishTask(w) : w \in performWork(c)}
    ELSE Wander(c)

\* ---------------------------------------------------------------- loop body
\* Every way the pass of the roster entry v of tribe t can stand when it
\* comes to the movement step (or has left through `continue` before it)
DecisionOutcomes(v, t, ds, tick, luck) ==
    LET s1 == Starvation(VitalDecay(Ctx(v, t, luck)), tick)
        s2 == UNION {DangerStep(SleepRecovery(c), ds, tick) : c \in s1}
        s3 == UNION {AccidentStep(c, tick) : c \in s2}
    IN UNION {DecisionStep(c) : c \in s3}

\* Every way one pass of the villager loop body can end for the roster entry v
\* of tribe t: the copy `villager` as it stands at the end of the pass, the
\* tribe record, the death event if one was pushed, and `dead` when the pass
\* left through `continue`.
ProcessOutcomes(v, t, ds, tick, luck) ==
    UNION {MovementStep(c) : c \in DecisionOutcomes(v, t, ds, tick, luck)}

\* ---------------------------------------------------------------- the tick
Alive(v) == ~v.isDead

\* newVillagers.filter(v => v.tribeId === id && !v.isDead)
Roster(vs, id) == SelectSeq(vs, LAMBDA v : v.tribeId = id /\ ~v.isDead)

\* the next tribe, from index k on, whose roster is not empty: the loop body
\* does not run for the others (Len(ts) + 1 when the tribe loop is over)
NextTribe(k, ts, vs) ==
    IF \E j \in k..Len(ts) : Roster(vs, ts[j].id) # <<>>
    THEN CHOOSE j \in k..Len(ts) :
            Roster(vs, ts[j].id) # <<>> /\ \A i \in k..(j - 1) : Roster(vs, ts[i].id) = <<>>
    ELSE Len(ts) + 1

\* RESOURCES.dangers = newEvents.filter(hazardous type).map(position, type, severity)
DangersOf(es) ==
    LET hz == SelectSeq(es, LAMBDA e : e.type \in {"wildAnimal", "fire", "disease"})
    IN [i \in 1..Len(hz) |->
          [x |-> hz[i].posX, y |-> hz[i].posY, type |-> hz[i].type, severity |-> hz[i].severity]]

\* currentVillagers.filter(v => !v.isDead) holds the objects of the argument
\* themselves: the indexes of the living, in order
RECURSIVE Kept(_)
Kept(vs) ==
    IF vs = <<>> THEN <<>>
    ELSE LET n == Len(vs)
             front == Kept(SubSeq(vs, 1, n - 1))
         IN IF vs[n].isDead THEN front ELSE Append(front, n)

\* faulty variant: the tick advanced by the game speed
NewState_BySpeed(currentState) ==
    [currentState EXCEPT !.gameTick = @ + currentState.gameSpeed]
\* newState = { ...currentState, gameTick: currentState.gameTick + 1 }
NewState(currentState) == [currentState EXCEPT !.gameTick = @ + 1]

\* the start of advanceGameTick, up to the first pass of the villager loop
BeginTick ==
    /\ pc \in {"loaded", "ready"}
    /\ calls < MaxCalls
    /\ calls' = calls + 1
    /\ state' = NewState(state)
    /\ gameEvents' = <<>>
    /\ currentVillagers' = villagers
    /\ villagers' = SelectSeq(villagers, Alive)
    /\ origin' = Kept(villagers)
    /\ dangers' = DangersOf(worldEvents)
    /\ LET j == NextTribe(1, tribes, villagers')
       IN /\ ti' = j
          /\ vi' = 1
          /\ tribeVillagers' = IF j <= Len(tribes) THEN Roster(villagers', tribes[j].id) ELSE <<>>
          /\ pc' = IF j <= Len(tribes) THEN "villagers" ELSE "immigration"
    /\ UNCHANGED <<tribes, worldEvents, lastImmigrationTick, lastSplitTick, resources, rare,
                   history>>

\* faulty variant: the copy is written back before the `continue` of a death
WriteBack_Dead(vs, o) ==
    LET idx == FindIndexById(vs, o.v.id)
    IN IF idx = 0 THEN vs ELSE [vs EXCEPT ![idx] = o.v]
\* Update villager in array: skipped by the `continue` of a death
WriteBack(vs, o) ==
    LET idx == FindIndexById(vs, o.v.id)
    IN IF o.dead \/ idx = 0 THEN vs ELSE [vs EXCEPT ![idx] = o.v]

\* newVillagers[idx] = villager puts the copy `{ ...v }`, an object of the
\* call, in the place of the argument's object
WriteBackOrigin(org, vs, o) ==
    LET idx == FindIndexById(vs, o.v.id)
    IN IF o.dead \/ idx = 0 THEN org ELSE [org EXCEPT ![idx] = 0]

\* one pass of the body of the villager loop, and the loop bookkeeping; a
\* pass that throws ends the call where it stands, nothing returned
ProcessVillager ==
    /\ pc = "villagers"
    /\ \E o \in ProcessOutcomes(tribeVillagers[vi], tribes[ti], dangers,
                                state.gameTick, rare < MaxRare) :
          /\ tribes' = [tribes EXCEPT ![ti] = o.t]
          /\ villagers' = IF o.threw THEN villagers ELSE WriteBack(villagers, o)
          /\ origin' = IF o.threw THEN origin ELSE WriteBackOrigin(origin, villagers, o)
          /\ gameEvents' = gameEvents \o o.ev
          /\ history' = history \o o.ev
          /\ rare' = IF o.used THEN rare + 1 ELSE rare
          /\ IF o.threw
             THEN /\ pc' = "threw"
                  /\ UNCHANGED <<ti, vi, tribeVillagers>>
             ELSE IF vi < Len(tribeVillagers)
             THEN /\ vi' = vi + 1
                  /\ UNCHANGED <<ti, tribeVillagers, pc>>
             ELSE LET j == NextTribe(ti + 1, tribes, villagers')
                  IN /\ ti' = j
                     /\ vi' = 1
                     /\ tribeVillagers' =
                           IF j <= Len(tribes) THEN Roster(villagers', tribes[j].id) ELSE <<>>
                     /\ pc' = IF j <= Len(tribes) THEN "villagers" ELSE "immigration"
    /\ UNCHANGED <<state, worldEvents, lastImmigrationTick, lastSplitTick, dangers, resources,
                   calls, currentVillagers>>

\* ---------------------------------------------------------------- immigration
Population(vs, id) == Len(Roster(vs, id))

\* Math.max(1, 10 - pop): smaller tribes are more attractive
ImmigrationWeight(pop) == Max(1, 10 - pop)

\* faulty variant: the tribes are not filtered by their living members
ImmigrationTargets_AllTribes(ts, vs) == Range(ts)
\* The tribes the weighted roll can stop at: the roll walks the alive tribes in
\* order and stops at the first whose cumulated weight reaches it, so a tribe
\* is chosen exactly when its weight is positive (aliveTribes[0] otherwise).
ImmigrationTargets(ts, vs) ==
    LET alive == SelectSeq(ts, LAMBDA t : Population(vs, t.id) > 0)
        can == {i \in 1..Len(alive) : ImmigrationWeight(Population(vs, alive[i].id)) > 0}
    IN {alive[i] : i \in (IF can = {} THEN {1} \cap (1..Len(alive)) ELSE can)}

\* Math.floor(Math.random() * n), the draw r in millionths (the product is
\* taken in two parts to stay within the integers)
FloorRand(r, n) == ((r \div 1000) * n + ((r % 1000) * n) \div 1000) \div 1000

Immigrant(id, tribeId, d) ==
    [id |-> id, tribeId |-> tribeId,
     health |-> 70 * Unit + d.r * 30, energy |-> 50 * Unit + d.r * 30,
     hunger |-> 20 * Unit + d.r * 30, happiness |-> 60 * Unit + d.r * 30,
     skillFarming |-> FloorRand(d.r, 20), skillBuilding |-> FloorRand(d.r, 20),
     skillResearch |-> FloorRand(d.r, 15), skillGathering |-> FloorRand(d.r, 25),
     action |-> "idle", targetX |-> NULL, targetY |-> NULL,
     posX |-> IF d.west THEN 10 ELSE MAP_WIDTH - 10,
     posY |-> 100 + FloorRand(d.r, MAP_HEIGHT - 200),
     traits |-> d.traits, isDead |-> FALSE, causeOfDeath |-> "null"]

ImmigrationEvent(tick, tribeId, villagerId) ==
    [tick |-> tick, type |-> "immigration", tribeId |-> tribeId, villagerId |-> villagerId]

\* faulty variant: the cooldown forgotten
ImmigrationDue_NoCooldown == state.immigrationEnabled
ImmigrationDue == state.immigrationEnabled
                  /\ state.gameTick - lastImmigrationTick > MIN_IMMIGRATION_INTERVAL

Immigration ==
    /\ pc = "immigration"
    /\ pc' = "split"
    /\ \E arrive \in BOOLEAN :
          IF arrive /\ ImmigrationDue /\ rare < MaxRare
                    /\ ImmigrationTargets(tribes, villagers) # {}
          THEN \E t \in ImmigrationTargets(tribes, villagers), d \in ImmigrantDraws,
                  now \in DateNow, off \in IdOffsets :
                  /\ villagers' = Append(villagers, Immigrant(now + off, t.id, d))
                  /\ origin' = Append(origin, 0)
                  /\ lastImmigrationTick' = state.gameTick
                  /\ gameEvents' = Append(gameEvents,
                                          ImmigrationEvent(state.gameTick, t.id, now + off))
                  /\ history' = Append(history,
                                        ImmigrationEvent(state.gameTick, t.id, now + off))
                  /\ rare' = rare + 1
          ELSE UNCHANGED <<villagers, origin, lastImmigrationTick, gameEvents, rare, history>>
    /\ UNCHANGED <<state, tribes, worldEvents, lastSplitTick, dangers, resources, ti,
                   tribeVillagers, vi, calls, currentVillagers>>

\* ---------------------------------------------------------------- tribe splitting
\* Math.floor(x * 0.3) and Math.floor(x * 0.2) of a stockpile, in millionths
\* (the quotient is taken before the product to stay within the integers)
FloorShare(x, tenths) ==
    (((x \div (10 * Unit)) * tenths) + (((x % (10 * Unit)) * tenths) \div (10 * Unit))) * Unit
SplitFood(food) == FloorShare(food, 3)
SplitWood(wood) == FloorShare(wood, 3)
SplitStone(stone) == FloorShare(stone, 3)
\* faulty variant: 30% of the tech points as of the other stockpiles
SplitTech_ThirtyPercent(techPoints) == FloorShare(techPoints, 3)
SplitTech(techPoints) == FloorShare(techPoints, 2)

\* newTribes.some(t => dist(t.centerX, t.centerY, x, y) < 300)
TooClose(c, ts) ==
    \E i \in 1..Len(ts) :
        DistSq(ts[i].centerX, ts[i].centerY, c[1], c[2]) < MIN_TRIBE_DISTANCE * MIN_TRIBE_DISTANCE

\* The do-while draws a candidate and stops when it is far enough from every
\* tribe or when it was the 30th draw: its result is an accepted candidate, or
\* a rejected one that 29 rejected draws came before.
SplitCenters(ts) ==
    LET rejected == {c \in CenterSamples : TooClose(c, ts)}
    IN (CenterSamples \ rejected) \cup (IF MAX_SPLIT_ATTEMPTS >= 1 THEN rejected ELSE {})

\* a colour no tribe uses, any colour when all are used
SplitColors(ts) ==
    LET usedColors == {ts[i].color : i \in 1..Len(ts)}
        availableColors == Range(TRIBE_COLORS) \ usedColors
    IN IF availableColors # {} THEN availableColors ELSE Range(TRIBE_COLORS)

\* faulty variant: the slice one too long
Splitters_OneMore(tribePop, splitCount) == SubSeq(tribePop, 1, Min(splitCount + 1, Len(tribePop)))
\* tribePop.slice(0, splitCount)
Splitters(tribePop, splitCount) == SubSeq(tribePop, 1, Min(splitCount, Len(tribePop)))

NewTribe(id, tribe, c, color, tick) ==
    [id |-> id, color |-> color,
     food |-> SplitFood(tribe.food), wood |-> SplitWood(tribe.wood),
     stone |-> SplitStone(tribe.stone), techPoints |-> SplitTech(tribe.techPoints),
     centerX |-> c[1], centerY |-> c[2], territoryRadius |-> SPLIT_TERRITORY_RADIUS,
     priorityFarming |-> tribe.priorityFarming, priorityBuilding |-> tribe.priorityBuilding,
     priorityResearch |-> tribe.priorityResearch, priorityGathering |-> tribe.priorityGathering,
     priorityDefense |-> tribe.priorityDefense,
     isPlayerTribe |-> FALSE, foundedTick |-> tick]

\* Deduct resources from original tribe (the first tribe carrying its id)
DeductSplit(ts, tribe, newTribe) ==
    LET tribeIdx == FindIndexById(ts, tribe.id)
    IN IF tribeIdx = 0 THEN ts
       ELSE [ts EXCEPT ![tribeIdx].food = @ - newTribe.food,
                       ![tribeIdx].wood = @ - newTribe.wood,
                       ![tribeIdx].stone = @ - newTribe.stone]

\* Move villagers to new tribe: each splitter is looked up by id, in order
RECURSIVE MoveSplitters(_, _, _, _, _)
MoveSplitters(vs, splitters, newTribeId, c, j) ==
    IF splitters = <<>> THEN vs
    ELSE LET vIdx == FindIndexById(vs, Head(splitters).id)
             moved == IF vIdx = 0 THEN vs
                      ELSE [vs EXCEPT ![vIdx].tribeId = newTribeId,
                                      ![vIdx].posX = c[1] + j[1],
                                      ![vIdx].posY = c[2] + j[2]]
         IN MoveSplitters(moved, Tail(splitters), newTribeId, c, j)

\* newVillagers[vIdx].tribeId = ... writes to the object newVillagers[vIdx]
\* refers to: when it is an object of the argument, the argument changes
RECURSIVE MoveShared(_, _, _, _, _, _, _)
MoveShared(cur, org, vs, splitters, newTribeId, c, j) ==
    IF splitters = <<>> THEN cur
    ELSE LET vIdx == FindIndexById(vs, Head(splitters).id)
             k == IF vIdx = 0 THEN 0 ELSE org[vIdx]
             moved == IF k = 0 THEN cur
                      ELSE [cur EXCEPT ![k].tribeId = newTribeId,
                                       ![k].posX = c[1] + j[1],
                                       ![k].posY = c[2] + j[2]]
         IN MoveShared(moved, org, vs, Tail(splitters), newTribeId, c, j)

SplitEvent(tick, newTribeId) ==
    [tick |-> tick, type |-> "tribeSplit", tribeId |-> newTribeId, villagerId |-> NULL]

SplitDue == state.tribeSplittingEnabled
            /\ state.gameTick - lastSplitTick > MIN_SPLIT_INTERVAL

\* faulty variant: any tribe with a living member can split
CanSplit_NoMinimum(ts, vs, k) == Population(vs, ts[k].id) >= 1
\* the tribes the scan can split: large enough (the roll decides)
CanSplit(ts, vs, k) == Population(vs, ts[k].id) >= MIN_POP_FOR_SPLIT

\* the working state of the scan over newTribes
ScanState(ts, vs, cur, org, luck) ==
    [ts |-> ts, vs |-> vs, cur |-> cur, org |-> org, ev |-> <<>>, last |-> NULL, luck |-> luck]

\* every way tribe k of w.ts can split off a new tribe
SplitOutcomes(k, w, tick) ==
    LET tribe == w.ts[k]
        tribePop == Roster(w.vs, tribe.id)
    IN {LET newTribe == NewTribe(now + off, tribe, c, color, tick)
        IN [w EXCEPT !.ts = Append(DeductSplit(w.ts, tribe, newTribe), newTribe),
                     !.vs = MoveSplitters(w.vs, Splitters(tribePop, splitCount),
                                          newTribe.id, c, j),
                     !.cur = MoveShared(w.cur, w.org, w.vs, Splitters(tribePop, splitCount),
                                        newTribe.id, c, j),
                     !.last = tick,
                     !.ev = Append(@, SplitEvent(tick, newTribe.id))] :
           splitCount \in {2, 3}, c \in SplitCenters(w.ts), color \in SplitColors(w.ts),
           now \in DateNow, off \in IdOffsets, j \in SplitJitter}

RECURSIVE SplitScan(_, _, _)

\* faulty variant: the break forgotten, the scan goes on after a split
AfterSplit_NoBreak(k, w, tick) == SplitScan(k + 1, w, tick)
\* break; // Only one split per tick
AfterSplit(k, w, tick) == {w}

\* for (const tribe of newTribes): the roll of a tribe that is large enough
\* fails and the scan goes on, or succeeds and the tribe splits
SplitScan(k, w, tick) ==
    IF k > Len(w.ts) THEN {w}
    ELSE IF CanSplit(w.ts, w.vs, k) /\ w.luck
         THEN SplitScan(k + 1, w, tick)
              \cup UNION {AfterSplit(k, s, tick) : s \in SplitOutcomes(k, w, tick)}
         ELSE SplitScan(k + 1, w, tick)

TribeSplitting ==
    /\ pc = "split"
    /\ pc' = "hazard"
    /\ IF SplitDue
       THEN \E w \in SplitScan(1, ScanState(tribes, villagers, currentVillagers, origin,
                                             rare < MaxRare), state.gameTick) :
               /\ tribes' = w.ts
               /\ villagers' = w.vs
               /\ currentVillagers' = w.cur
               /\ lastSplitTick' = IF w.last = NULL THEN lastSplitTick ELSE w.last
               /\ gameEvents' = gameEvents \o w.ev
               /\ history' = history \o w.ev
               /\ rare' = IF w.ev = <<>> THEN rare ELSE rare + 1
       ELSE UNCHANGED <<tribes, villagers, currentVillagers, lastSplitTick, gameEvents, rare,
                        history>>
    /\ UNCHANGED <<state, worldEvents, lastImmigrationTick, dangers, resources, ti,
                   tribeVillagers, vi, calls, origin>>

\* ---------------------------------------------------------------- world events
\* eventTypes
EventTypes == {"wildAnimal", "disease", "blessing"}

\* faulty variant: a wider bonus range
BlessingFood_Wide(r) == 30 * Unit + r * 60
\* 30 + Math.random() * 50
BlessingFood(r) == 30 * Unit + r * 50

\* newTribes[tribeIdx].food += bonus, on the first tribe carrying the id
Bless(ts, targetTribe, r) ==
    LET tribeIdx == FindIndexById(ts, targetTribe.id)
    IN IF tribeIdx = 0 THEN ts ELSE [ts EXCEPT ![tribeIdx].food = @ + BlessingFood(r)]

BlessingEvent(tick, tribeId) ==
    [tick |-> tick, type |-> "blessing", tribeId |-> tribeId, villagerId |-> NULL]
DisasterEvent(tick, tribeId) ==
    [tick |-> tick, type |-> "disaster", tribeId |-> tribeId, villagerId |-> NULL]

\* centre + (Math.random() - 0.5) * territoryRadius * 2, clamped and rounded
EventCoord(center, radius, r, limit) ==
    clamp(center + RoundDiv((2 * r - Unit) * radius, Unit), 50, limit - 50)

\* the WorldEvent a hazard roll creates; r stands for each of its draws
NewWorldEvent(id, type, targetTribe, r) ==
    [id |-> id, type |-> type,
     posX |-> EventCoord(targetTribe.centerX, targetTribe.territoryRadius, r, MAP_WIDTH),
     posY |-> EventCoord(targetTribe.centerY, targetTribe.territoryRadius, r, MAP_HEIGHT),
     radius |-> 50 + FloorRand(r, 50),
     severity |-> 1 + FloorRand(r, 3),
     duration |-> 200 + FloorRand(r, 300)]

\* faulty variant: the enable flag is not read
HazardRoll_Ungated(s, strike) == strike
\* newState.randomEventsEnabled && Math.random() < RANDOM_EVENT_CHANCE
HazardRoll(s, strike) == s.randomEventsEnabled /\ strike

RandomWorldEvents ==
    /\ pc = "hazard"
    /\ \E strike \in BOOLEAN :
          IF HazardRoll(state, strike) /\ rare < MaxRare
          THEN IF tribes = <<>>
               THEN \* targetTribe is undefined: reading targetTribe.centerX throws
                    /\ pc' = "threw"
                    /\ UNCHANGED <<tribes, worldEvents, gameEvents, rare>>
               ELSE \E eventType \in EventTypes, i \in 1..Len(tribes), r \in Random,
                       now \in DateNow :
                       /\ pc' = "finish"
                       /\ rare' = rare + 1
                       /\ IF eventType = "blessing"
                          THEN /\ tribes' = Bless(tribes, tribes[i], r)
                               /\ gameEvents' = Append(gameEvents,
                                      BlessingEvent(state.gameTick, tribes[i].id))
                               /\ UNCHANGED worldEvents
                          ELSE /\ worldEvents' = Append(worldEvents,
                                      NewWorldEvent(now, eventType, tribes[i], r))
                               /\ gameEvents' = Append(gameEvents,
                                      DisasterEvent(state.gameTick, tribes[i].id))
                               /\ UNCHANGED tribes
          ELSE /\ pc' = "finish"
               /\ UNCHANGED <<tribes, worldEvents, gameEvents, rare>>
    /\ UNCHANGED <<state, villagers, lastImmigrationTick, lastSplitTick, dangers, resources,
                   ti, tribeVillagers, vi, calls, currentVillagers, origin, history>>

\* ---------------------------------------------------------------- end of the tick
\* faulty variant: events are kept until their duration is below 0
UpdateDurations_KeepZero(es) ==
    SelectSeq([i \in 1..Len(es) |-> [es[i] EXCEPT !.duration = @ - 1]],
              LAMBDA e : e.duration >= 0)
\* faulty variant: the durations are not counted down
UpdateDurations_FilterOnly(es) == SelectSeq(es, LAMBDA e : e.duration > 0)
\* newEvents.map(e => ({...e, duration: e.duration - 1})).filter(e => e.duration > 0)
UpdateDurations(es) ==
    SelectSeq([i \in 1..Len(es) |-> [es[i] EXCEPT !.duration = @ - 1]],
              LAMBDA e : e.duration > 0)

\* faulty variant: the player's tribe is not exempt
RemoveEmptyTribes_PlayerToo(ts, vs) ==
    LET tribesWithPop == {vs[i].tribeId : i \in 1..Len(vs)}
    IN SelectSeq(ts, LAMBDA t : t.id \in tribesWithPop)
\* faulty variant: only the player's tribe is kept
RemoveEmptyTribes_PlayerOnly(ts, vs) == SelectSeq(ts, LAMBDA t : t.isPlayerTribe)
\* newTribes.filter(t => tribesWithPop.has(t.id) || t.isPlayerTribe)
RemoveEmptyTribes(ts, vs) ==
    LET tribesWithPop == {vs[i].tribeId : i \in 1..Len(vs)}
    IN SelectSeq(ts, LAMBDA t : t.id \in tribesWithPop \/ t.isPlayerTribe)

FinishTick ==
    /\ pc = "finish"
    /\ pc' = "ready"
    /\ worldEvents' = UpdateDurations(worldEvents)
    /\ villagers' = SelectSeq(villagers, Alive)
    /\ tribes' = RemoveEmptyTribes(tribes, villagers')
    /\ origin' = <<>>
    /\ UNCHANGED <<state, gameEvents, lastImmigrationTick, lastSplitTick, dangers, resources,
                   ti, tribeVillagers, vi, calls, currentVillagers, rare, history>>

\* ---------------------------------------------------------------- initial worlds
\* A villager row as the server sends it (shared/schema.ts): the fields the
\* tick reads or writes.
Villager(id, tribeId, health, energy, hunger, skill, action, target, pos, traits) ==
    [id |-> id, tribeId |-> tribeId,
     health |-> health, energy |-> energy, hunger |-> hunger, happiness |-> 100 * Unit,
     skillFarming |-> skill, skillBuilding |-> skill, skillResearch |-> skill,
     skillGathering |-> skill,
     action |-> action, targetX |-> target[1], targetY |-> target[2],
     posX |-> pos[1], posY |-> pos[2],
     traits |-> traits, isDead |-> FALSE, causeOfDeath |-> "null"]

\* A tribe row with the schema's default priorities (5, 5, 2, 5, 3)
Tribe(id, color, food, wood, stone, techPoints, center, isPlayerTribe) ==
    [id |-> id, color |-> color,
     food |-> food, wood |-> wood, stone |-> stone, techPoints |-> techPoints,
     centerX |-> center[1], centerY |-> center[2], territoryRadius |-> 150,
     priorityFarming |-> 5, priorityBuilding |-> 5, priorityResearch |-> 2,
     priorityGathering |-> 5, priorityDefense |-> 3,
     isPlayerTribe |-> isPlayerTribe, foundedTick |-> 0]

WorldEvent(id, type, pos, severity, duration) ==
    [id |-> id, type |-> type, posX |-> pos[1], posY |-> pos[2], radius |-> 50,
     severity |-> severity, duration |-> duration]

\* A game_state row: double speed, the second tribe selected, a stored event
\* log and one achievement
GameState(gameTick, immigration, splitting, randomEvents) ==
    [gameTick |-> gameTick, gameSpeed |-> 2, godModeEnabled |-> TRUE,
     immigrationEnabled |-> immigration,
     tribeSplittingEnabled |-> splitting, randomEventsEnabled |-> randomEvents,
     recentEvents |-> "[{tick: 0}]", achievements |-> <<"First Steps">>,
     selectedTribeId |-> 2]

\* A hamlet.  The player's tribe: a starving villager at death's door, and a
\* hungry one eating at the tribe centre.  The second tribe: a weak farmer at
\* work, who may stand beside a beast, and a sleeper almost fully rested.
HamletVillagers ==
    <<Villager(1, 1, 100000, 50 * Unit, 99980000, 0, "eating", <<400, 300>>, <<400, 300>>, {}),
      Villager(2, 1, 100 * Unit, 50 * Unit, 70 * Unit, 100, "eating", <<400, 300>>,
               <<400, 300>>, {"Lucky"}),
      Villager(3, 2, 20 * Unit, 90 * Unit, 4 * Unit, 99, "farming", <<1600, 1240>>,
               <<1600, 1236>>, {"Reckless"}),
      Villager(4, 2, 99900000, 99500000, 10 * Unit, 0, "sleeping", <<1610, 1500>>,
               <<1610, 1500>>, {})>>

HamletTribes(food) ==
    <<Tribe(1, TRIBE_COLORS[1], food, 50 * Unit, 0, 0, <<400, 300>>, TRUE),
      Tribe(2, TRIBE_COLORS[2], 100 * Unit, 50 * Unit, 0, 0, <<1600, 1200>>, FALSE)>>

HamletEvents ==
    <<WorldEvent(1, "disease", <<420, 300>>, 1, 1),
      WorldEvent(2, "wildAnimal", <<1600, 1200>>, 3, 2)>>

\* Two tribes of eight on their way to the woods, the split cooldown over;
\* the first villager of the first tribe is starving, at death's door
Walker(id, tribeId, center) ==
    Villager(id, tribeId, 100 * Unit, 80 * Unit, 10 * Unit, 10, "gathering",
             <<center[1], center[2] + 500>>, <<center[1], center[2] + 10 * (id % 8)>>, {})

CrowdVillagers ==
    [i \in 1..16 |->
        IF i = 1 THEN [Walker(1, 1, <<400, 300>>) EXCEPT !.health = 100000, !.hunger = 99980000]
        ELSE IF i <= 8 THEN Walker(i, 1, <<400, 300>>) ELSE Walker(i, 2, <<1600, 1200>>)]

CrowdTribes ==
    <<Tribe(1, TRIBE_COLORS[1], 100500000, 55 * Unit, 7 * Unit, 12 * Unit, <<400, 300>>, TRUE),
      Tribe(2, TRIBE_COLORS[2], 9 * Unit, 3 * Unit, 0, 4999999, <<1600, 1200>>, FALSE)>>

Hamlet(gameTick, enabled, food, events) ==
    [state |-> GameState(gameTick, enabled, enabled, enabled), tribes |-> HamletTribes(food),
     villagers |-> HamletVillagers, worldEvents |-> events]

\* A lone villager at work, awake, its tribe with 10 food, every toggle off:
\* villager 94 enters with hunger 94, villager 95 with hunger 94.96, each
\* either at the tribe centre or 200 units away from it
Lone(id, hunger, pos) ==
    [state |-> GameState(0, FALSE, FALSE, FALSE),
     tribes |-> <<Tribe(1, TRIBE_COLORS[1], 10 * Unit, 0, 0, 0, <<400, 300>>, TRUE)>>,
     villagers |-> <<Villager(id, 1, 100 * Unit, 80 * Unit, hunger, 10, "gathering",
                              <<400, 800>>, pos, {})>>,
     worldEvents |-> <<>>]

\* A lone villager at work, hungry (70) and exhausted (energy 10), its tribe
\* with 10 food, every toggle off
Weary ==
    [state |-> GameState(0, FALSE, FALSE, FALSE),
     tribes |-> <<Tribe(1, TRIBE_COLORS[1], 10 * Unit, 0, 0, 0, <<400, 300>>, TRUE)>>,
     villagers |-> <<Villager(19, 1, 100 * Unit, 10 * Unit, 70 * Unit, 10, "gathering",
                              <<400, 800>>, <<400, 500>>, {})>>,
     worldEvents |-> <<>>]

\* The player's tribe with its last member dead, a second tribe with no member
\* at all, and a third with one walker; splitting enabled, its cooldown over
Deserted ==
    [state |-> GameState(MIN_SPLIT_INTERVAL, FALSE, TRUE, FALSE),
     tribes |-> <<Tribe(1, TRIBE_COLORS[1], 10 * Unit, 0, 0, 0, <<400, 300>>, TRUE),
                  Tribe(2, TRIBE_COLORS[2], 10 * Unit, 0, 0, 0, <<1600, 1200>>, FALSE),
                  Tribe(3, TRIBE_COLORS[3], 10 * Unit, 0, 0, 0, <<2800, 2000>>, FALSE)>>,
     villagers |-> <<[Walker(31, 1, <<400, 300>>) EXCEPT !.isDead = TRUE,
                                                         !.causeOfDeath = "starvation"],
                     Walker(33, 3, <<2800, 2000>>)>>,
     worldEvents |-> <<>>]

\* Villagers in flight from a beast, each with the flee target (600, 300):
\* 21 is 100 units from the target, 22 is 5 units from it, 23 is hungry (70)
\* and 24 exhausted (energy 10); 25, at work beside the beast, is hungry; 26,
\* in flight like 21, is starving (hunger 99.98) and at death's door (health
\* 0.1); 27, hungry like 23, stands 4 units from the tribe centre.  The tribe
\* has 10 food; every toggle is off.
Fugitive(id, energy, hunger, pos) ==
    Villager(id, 1, 100 * Unit, energy, hunger, 10, "fleeing", <<600, 300>>, pos, {})

Flight ==
    [state |-> GameState(0, FALSE, FALSE, FALSE),
     tribes |-> <<Tribe(1, TRIBE_COLORS[1], 10 * Unit, 0, 0, 0, <<400, 300>>, TRUE)>>,
     villagers |-> <<Fugitive(21, 80 * Unit, 10 * Unit, <<500, 300>>),
                     Fugitive(22, 80 * Unit, 10 * Unit, <<595, 300>>),
                     Fugitive(23, 80 * Unit, 70 * Unit, <<500, 300>>),
                     Fugitive(24, 10 * Unit, 10 * Unit, <<500, 300>>),
                     Villager(25, 1, 100 * Unit, 80 * Unit, 70 * Unit, 10, "gathering",
                              <<400, 1200>>, <<500, 300>>, {}),
                     [Fugitive(26, 80 * Unit, 99980000, <<500, 300>>)
                         EXCEPT !.health = 100000],
                     Fugitive(27, 80 * Unit, 70 * Unit, <<404, 300>>)>>,
     worldEvents |-> <<WorldEvent(3, "wildAnimal", <<500, 320>>, 1, 50)>>]

\* The player's tribe with its last member dead and a second tribe, with one
\* walker or with no member at all; immigration enabled, its cooldown over
Ghost(inhabited) ==
    [state |-> GameState(MIN_IMMIGRATION_INTERVAL, TRUE, FALSE, FALSE),
     tribes |-> <<Tribe(1, TRIBE_COLORS[1], 10 * Unit, 0, 0, 0, <<400, 300>>, TRUE),
                  Tribe(2, TRIBE_COLORS[2], 10 * Unit, 0, 0, 0, <<1600, 1200>>, FALSE)>>,
     villagers |-> <<[Walker(41, 1, <<400, 300>>) EXCEPT !.isDead = TRUE,
                                                         !.causeOfDeath = "starvation"]>>
                   \o (IF inhabited THEN <<Walker(42, 2, <<1600, 1200>>)>> ELSE <<>>),
     worldEvents |-> <<>>]

\* Eight tribes, one of each colour: the player's with eight walkers, the
\* others with no member; splitting enabled, its cooldown over
Octet ==
    [state |-> GameState(MIN_SPLIT_INTERVAL, FALSE, TRUE, FALSE),
     tribes |-> [k \in 1..8 |->
                    Tribe(k, TRIBE_COLORS[k], 100 * Unit, 50 * Unit, 0, 0,
                          <<400 * k, 300>>, k = 1)],
     villagers |-> [i \in 1..8 |-> Walker(60 + i, 1, <<400, 300>>)],
     worldEvents |-> <<>>]

\* Two villagers eating at the tribe centre, almost sated: 71 enters with
\* hunger 6 and 72 with hunger 1; beside them 73, a master of every skill
\* (100), builds at its target.  The tribe has 10 food and some of every
\* other stock; every toggle is off.
Sated ==
    [state |-> GameState(0, FALSE, FALSE, FALSE),
     tribes |-> <<Tribe(1, TRIBE_COLORS[1], 10 * Unit, 5 * Unit, 3 * Unit, 2 * Unit,
                        <<400, 300>>, TRUE)>>,
     villagers |-> <<Villager(71, 1, 100 * Unit, 80 * Unit, 6 * Unit, 10, "eating",
                              <<400, 300>>, <<400, 300>>, {}),
                     Villager(72, 1, 100 * Unit, 80 * Unit, 1 * Unit, 10, "eating",
                              <<400, 300>>, <<404, 303>>, {}),
                     Villager(73, 1, 100 * Unit, 80 * Unit, 1 * Unit, 100, "building",
                              <<300, 300>>, <<300, 300>>, {})>>,
     worldEvents |-> <<>>]

\* the snapshots the host can load again in the course of a run
Snapshots ==
    {Hamlet(MIN_IMMIGRATION_INTERVAL, TRUE, 10 * Unit, HamletEvents),
     Hamlet(0, TRUE, 0, HamletEvents),
     Hamlet(0, FALSE, 50000, <<>>)}
    \cup
    {[state |-> GameState(MIN_SPLIT_INTERVAL, FALSE, TRUE, FALSE), tribes |-> CrowdTribes,
      villagers |-> CrowdVillagers, worldEvents |-> <<>>]}

Worlds ==
    Snapshots
    \cup
    {Lone(id, 94 * Unit + (id - 94) * (Unit - HUNGER_RATE), pos) :
        id \in {94, 95}, pos \in {<<400, 300>>, <<400, 500>>}}
    \cup
    {Deserted, Weary, Flight, Ghost(TRUE), Ghost(FALSE), Octet, Sated}

Init ==
    /\ \E w \in Worlds :
          /\ state = w.state
          /\ tribes = w.tribes
          /\ villagers = w.villagers
          /\ worldEvents = w.worldEvents
    /\ gameEvents = <<>>
    /\ lastImmigrationTick = 0
    /\ lastSplitTick = 0
    /\ dangers = <<>>
    /\ resources = [trees |-> Trees, rocks |-> Rocks]
    /\ pc = "loaded"
    /\ ti = 1
    /\ tribeVillagers = <<>>
    /\ vi = 1
    /\ calls = 0
    /\ currentVillagers = <<>>
    /\ origin = <<>>
    /\ rare = 0
    /\ history = <<>>

\* The host loads a snapshot from the server again (after a reset, or another
\* game): the four arguments of the next call are replaced, a new run begins,
\* and the module of the engine, with its two timers and RESOURCES.dangers,
\* stays loaded.
Reload ==
    /\ pc = "ready"
    /\ calls >= 1
    /\ calls < MaxCalls
    /\ \E w \in Snapshots :
          /\ state' = w.state
          /\ tribes' = w.tribes
          /\ villagers' = w.villagers
          /\ worldEvents' = w.worldEvents
    /\ gameEvents' = <<>>
    /\ history' = <<>>
    /\ ti' = 1
    /\ vi' = 1
    /\ tribeVillagers' = <<>>
    /\ currentVillagers' = <<>>
    /\ origin' = <<>>
    /\ pc' = "loaded"
    /\ UNCHANGED <<lastImmigrationTick, lastSplitTick, dangers, resources, calls, rare>>

Next ==
    \/ BeginTick
    \/ ProcessVillager
    \/ Immigration
    \/ TribeSplitting
    \/ RandomWorldEvents
    \/ FinishTick
    \/ Reload

Spec == Init /\ [][Next]_vars

\* ---------------------------------------------------------------- task selection
\* The priorities of a tribe are integers from 0 to 10 (shared/schema.ts,
\* the sliders of PriorityPanel).  A lone idle villager, rested and fed, at
\* the centre of a tribe with any four work priorities; every toggle off.
Priorities == 0..10

TaskWorld(pf, pb, pg, pr) ==
    [state |-> GameState(0, FALSE, FALSE, FALSE),
     tribes |-> <<[Tribe(1, TRIBE_COLORS[1], 10 * Unit, 0, 0, 0, <<400, 300>>, TRUE)
                     EXCEPT !.priorityFarming = pf, !.priorityBuilding = pb,
                            !.priorityGathering = pg, !.priorityResearch = pr]>>,
     villagers |-> <<Villager(20, 1, 100 * Unit, 80 * Unit, 10 * Unit, 10, "idle",
                              <<NULL, NULL>>, <<400, 300>>, {})>>,
     worldEvents |-> <<>>]

TaskInit ==
    /\ \E pf \in Priorities, pb \in Priorities, pg \in Priorities, pr \in Priorities :
          /\ state = TaskWorld(pf, pb, pg, pr).state
          /\ tribes = TaskWorld(pf, pb, pg, pr).tribes
          /\ villagers = TaskWorld(pf, pb, pg, pr).villagers
          /\ worldEvents = TaskWorld(pf, pb, pg, pr).worldEvents
    /\ gameEvents = <<>>
    /\ lastImmigrationTick = 0
    /\ lastSplitTick = 0
    /\ dangers = <<>>
    /\ resources = [trees |-> Trees, rocks |-> Rocks]
    /\ pc = "loaded"
    /\ ti = 1
    /\ tribeVillagers = <<>>
    /\ vi = 1
    /\ calls = 0
    /\ currentVillagers = <<>>
    /\ origin = <<>>
    /\ rare = 0
    /\ history = <<>>

\* a call up to the end of the villager loop
TaskNext ==
    \/ BeginTick
    \/ ProcessVillager

TaskSpec == TaskInit /\ [][TaskNext]_vars

\* ---------------------------------------------------------------- direct calls
\* advanceGameTick is exported and checks none of its arguments: a caller
\* other than the host's loop (which calls it only while the tribe list is
\* not empty, pages/Game.tsx) can hand it an empty tribe list, and villager
\* rows are not range-checked anywhere on their way to it.
\* An empty world: every toggle is on and both cooldowns are over.
Void ==
    [state |-> GameState(MIN_SPLIT_INTERVAL, TRUE, TRUE, TRUE),
     tribes |-> <<>>,
     villagers |-> <<>>,
     worldEvents |-> <<>>]

\* A lone villager on its way to the woods whose row carries vitals outside
\* [0, 100]: health 150, energy 120, hunger -5, happiness 130.  Every toggle
\* is off.
Unclamped ==
    [state |-> GameState(0, FALSE, FALSE, FALSE),
     tribes |-> <<Tribe(1, TRIBE_COLORS[1], 10 * Unit, 0, 0, 0, <<400, 300>>, TRUE)>>,
     villagers |-> <<[Walker(51, 1, <<400, 300>>) EXCEPT !.health = 150 * Unit,
                                                         !.energy = 120 * Unit,
                                                         !.hunger = -5 * Unit,
                                                         !.happiness = 130 * Unit]>>,
     worldEvents |-> <<>>]

DirectInit ==
    /\ \E w \in Worlds \cup {Void, Unclamped} :
          /\ state = w.state
          /\ tribes = w.tribes
          /\ villagers = w.villagers
          /\ worldEvents = w.worldEvents
    /\ gameEvents = <<>>
    /\ lastImmigrationTick = 0
    /\ lastSplitTick = 0
    /\ dangers = <<>>
    /\ resources = [trees |-> Trees, rocks |-> Rocks]
    /\ pc = "loaded"
    /\ ti = 1
    /\ tribeVillagers = <<>>
    /\ vi = 1
    /\ calls = 0
    /\ currentVillagers = <<>>
    /\ origin = <<>>
    /\ rare = 0
    /\ history = <<>>

DirectSpec == DirectInit /\ [][Next]_vars

\* ---------------------------------------------------------------- resource nodes
\* RESOURCES is exported and its node lists are plain arrays: the lists as
\* the module defines them, and with the rocks, the trees or both removed.
\* A lone idle villager at the centre of a tribe with priorities 0, 5 or 10.
NodeLists ==
    {[trees |-> tr, rocks |-> ro] : tr \in {Trees, <<>>}, ro \in {Rocks, <<>>}}

NodeInit ==
    /\ \E pf \in {0, 5, 10}, pb \in {0, 5, 10}, pg \in {0, 5, 10}, pr \in {0, 5, 10} :
          /\ state = TaskWorld(pf, pb, pg, pr).state
          /\ tribes = TaskWorld(pf, pb, pg, pr).tribes
          /\ villagers = TaskWorld(pf, pb, pg, pr).villagers
          /\ worldEvents = TaskWorld(pf, pb, pg, pr).worldEvents
    /\ resources \in NodeLists
    /\ gameEvents = <<>>
    /\ lastImmigrationTick = 0
    /\ lastSplitTick = 0
    /\ dangers = <<>>
    /\ pc = "loaded"
    /\ ti = 1
    /\ tribeVillagers = <<>>
    /\ vi = 1
    /\ calls = 0
    /\ currentVillagers = <<>>
    /\ origin = <<>>
    /\ rare = 0
    /\ history = <<>>

NodeSpec == NodeInit /\ [][TaskNext]_vars

\* ---------------------------------------------------------------- divine summoning
\* the food a summoning costs (pages/Game.tsx, handleSpawnVillager)
SPAWN_COST == 50000000

\* the draws that make a summoned villager: one value of Math.random() used
\* for every numeric field, and two traits of TRAIT_POOL
SummonDraws == {[r |-> 999999, traits |-> {"Cautious", "Lucky"}]}

\* spawnVillager(tribe): the villager the god-mode power creates, its id made
\* like an immigrant's; d.r stands for each of its draws
spawnVillager(tribe, id, d) ==
    [id |-> id, tribeId |-> tribe.id,
     health |-> 100 * Unit, energy |-> 80 * Unit + d.r * 20,
     hunger |-> d.r * 20, happiness |-> 70 * Unit + d.r * 30,
     skillFarming |-> FloorRand(d.r, 15), skillBuilding |-> FloorRand(d.r, 15),
     skillResearch |-> FloorRand(d.r, 10), skillGathering |-> FloorRand(d.r, 20),
     action |-> "idle", targetX |-> NULL, targetY |-> NULL,
     posX |-> tribe.centerX + FloorRand(d.r, 80) - 40,
     posY |-> tribe.centerY + FloorRand(d.r, 80) - 40,
     traits |-> d.traits, isDead |-> FALSE, causeOfDeath |-> "null"]

\* handleSpawnVillager: between two calls the player summons a villager for
\* the selected tribe, for 50 food; the villager is appended to the list the
\* next call is given
SpawnVillager ==
    /\ pc \in {"loaded", "ready"}
    /\ state.godModeEnabled
    /\ \E k \in 1..Len(tribes), d \in SummonDraws, now \in DateNow, off \in IdOffsets :
          /\ k = FindIndexById(tribes, state.selectedTribeId)
          /\ tribes[k].food >= SPAWN_COST
          /\ tribes' = [i \in 1..Len(tribes) |->
                           IF tribes[i].id = state.selectedTribeId
                           THEN [tribes[i] EXCEPT !.food = @ - SPAWN_COST]
                           ELSE tribes[i]]
          /\ villagers' = Append(villagers, spawnVillager(tribes[k], now + off, d))
    /\ UNCHANGED <<state, worldEvents, gameEvents, lastImmigrationTick, lastSplitTick, dangers,
                   resources, pc, ti, tribeVillagers, vi, calls, currentVillagers, origin,
                   rare, history>>

\* the world of the lone walker of the second tribe, the tribe the player
\* has selected, with food for two summonings; immigration is due
SummonInit ==
    /\ LET w == [Ghost(TRUE) EXCEPT !.tribes[2].food = 2 * SPAWN_COST]
       IN /\ state = w.state
          /\ tribes = w.tribes
          /\ villagers = w.villagers
          /\ worldEvents = w.worldEvents
    /\ gameEvents = <<>>
    /\ lastImmigrationTick = 0
    /\ lastSplitTick = 0
    /\ dangers = <<>>
    /\ resources = [trees |-> Trees, rocks |-> Rocks]
    /\ pc = "loaded"
    /\ ti = 1
    /\ tribeVillagers = <<>>
    /\ vi = 1
    /\ calls = 0
    /\ currentVillagers = <<>>
    /\ origin = <<>>
    /\ rare = 0
    /\ history = <<>>

SummonNext ==
    \/ BeginTick
    \/ ProcessVillager
    \/ Immigration
    \/ TribeSplitting
    \/ RandomWorldEvents
    \/ FinishTick
    \/ SpawnVillager

SummonSpec == SummonInit /\ [][SummonNext]_vars

\* ================================================================ claims
\* the GameEvents of the given type pushed so far in the current call
EventsOfType(type) == {k \in 1..Len(gameEvents) : gameEvents[k].type = type}
\* the call has returned: the variables hold its result
Returned == pc = "ready" /\ calls >= 1
\* a step of a call, not the loading of a snapshot
CallStep == pc' # "loaded"
\* the step of the split scan in which a tribe split off
SplitStep == pc = "split" /\ Len(gameEvents') > Len(gameEvents)
\* the tribe that split: the one whose members changed tribe
SplitSource ==
    CHOOSE k \in 1..Len(tribes) :
        \E i \in 1..Len(villagers) :
            villagers[i].tribeId = tribes[k].id /\ villagers'[i].tribeId # villagers[i].tribeId
\* the villagers that changed tribe in the step
Movers == {i \in 1..Len(villagers) : villagers'[i].tribeId # villagers[i].tribeId}

\* C1: a villager named by a death event of a call is not in the villager
\* list the call returns.
C1_DeadVillagerAbsent ==
    Returned =>
        \A k \in EventsOfType("death") :
            \A i \in 1..Len(villagers) : villagers[i].id # gameEvents[k].villagerId

\* C2: every villager in the list, immigrants included, has health, energy,
\* hunger and happiness within [0, 100].
InVitalRange(x) == 0 <= x /\ x <= 100 * Unit
C2_VitalsInRange ==
    \A i \in 1..Len(villagers) :
        /\ InVitalRange(villagers[i].health)
        /\ InVitalRange(villagers[i].energy)
        /\ InVitalRange(villagers[i].hunger)
        /\ InVitalRange(villagers[i].happiness)
\* a call returned an immigrant and a sleeper whose energy reached the cap
C2_Witness ==
    /\ Returned
    /\ EventsOfType("immigration") # {}
    /\ \E i \in 1..Len(villagers) :
          villagers[i].action = "sleeping" /\ villagers[i].energy = 100 * Unit

\* C3: every tribe has food >= 0, wood >= 0 and stone >= 0.
C3_StockpilesNonNegative ==
    \A i \in 1..Len(tribes) :
        tribes[i].food >= 0 /\ tribes[i].wood >= 0 /\ tribes[i].stone >= 0
\* a call returned a tribe whose last crumbs of food a villager has eaten
C3_Witness ==
    /\ Returned
    /\ \E i \in 1..Len(tribes) :
          /\ tribes[i].food = 0
          /\ \E j \in 1..Len(villagers) :
                /\ villagers[j].tribeId = tribes[i].id
                /\ villagers[j].hunger = 70 * Unit + HUNGER_RATE - EAT_HUNGER_RELIEF

\* C4: in a split, for food, wood, stone and techPoints, the source tribe
\* keeps its pre-split amount minus what the new tribe got.
C4_SplitConservesResources ==
    [][SplitStep =>
          LET k == SplitSource
              n == tribes'[Len(tribes')]
          IN /\ tribes'[k].food = tribes[k].food - n.food
             /\ tribes'[k].wood = tribes[k].wood - n.wood
             /\ tribes'[k].stone = tribes[k].stone - n.stone
             /\ tribes'[k].techPoints = tribes[k].techPoints - n.techPoints]_vars

\* C5: the new tribe of a split starts with floor(0.3 F), floor(0.3 W),
\* floor(0.3 S) and floor(0.2 T) of the source's stockpiles at the split.
\* x is the whole number floor(tenths/10 * of)
IsFloorShare(x, tenths, of) ==
    /\ x % Unit = 0
    /\ 10 * x <= tenths * of
    /\ tenths * of < 10 * (x + Unit)
C6_SplitKeepsVillagers ==
    [][SplitStep =>
          LET n == tribes'[Len(tribes')]
          IN /\ Len(tribes') = Len(tribes) + 1
             /\ \A i \in 1..Len(tribes) : tribes'[i].id = tribes[i].id
             /\ Len(villagers') = Len(villagers)
             /\ \A i \in 1..Len(villagers) :
                   villagers'[i].id = villagers[i].id /\ villagers'[i].isDead = villagers[i].isDead
             /\ Cardinality(Movers) \in {2, 3}
             /\ \A i \in Movers :
                   /\ villagers[i].tribeId = tribes[SplitSource].id
                   /\ villagers'[i].tribeId = n.id]_vars
\* three villagers have left for a new tribe
C6_Witness ==
    /\ pc = "hazard"
    /\ EventsOfType("tribeSplit") # {}
    /\ Cardinality({i \in 1..Len(villagers) :
                      villagers[i].tribeId = tribes[Len(tribes)].id}) = 3
    /\ Len(villagers) = 16

\* C7: a call adds at most one tribe and emits at most one tribeSplit event.
C7_AtMostOneSplit ==
    [][CallStep =>
          /\ Len(tribes') <= Len(tribes) + (IF pc = "split" THEN 1 ELSE 0)
          /\ Cardinality({k \in 1..Len(gameEvents') :
                            gameEvents'[k].type = "tribeSplit"}) <= 1]_vars
\* the first of two tribes of eight has split, the second is still eight
C7_Witness ==
    /\ pc = "hazard"
    /\ EventsOfType("tribeSplit") # {}
    /\ Len(tribes) = 3
    /\ Population(villagers, tribes[1].id) < MIN_POP_FOR_SPLIT
    /\ Population(villagers, tribes[2].id) >= MIN_POP_FOR_SPLIT

\* C8: the end of a call returns every WorldEvent of duration d > 1 with
\* duration d - 1, drops every event of duration d <= 1, and no returned
\* event has a duration <= 0.
C8_DurationsCountDown ==
    [][/\ pc = "finish" =>
             LET kept == SelectSeq(worldEvents, LAMBDA e : e.duration > 1)
             IN /\ Len(worldEvents') = Len(kept)
                /\ \A i \in 1..Len(kept) :
                      worldEvents'[i] = [kept[i] EXCEPT !.duration = kept[i].duration - 1]
       /\ pc' = "ready" => \A i \in 1..Len(worldEvents') : worldEvents'[i].duration > 0]_vars
\* of a plague with 1 tick left and a beast with 2, the beast is returned with 1
C8_Witness ==
    /\ Returned
    /\ calls = 1
    /\ Len(worldEvents) = 1
    /\ worldEvents[1].type = "wildAnimal"
    /\ worldEvents[1].duration = 1

\* C9: with immigration, splitting and random events disabled and no world
\* event present, every call returns as many villagers as the call before.
Quiet ==
    /\ ~state.immigrationEnabled
    /\ ~state.tribeSplittingEnabled
    /\ ~state.randomEventsEnabled
    /\ worldEvents = <<>>
C10_BlessingEffect ==
    [][(pc = "hazard" /\ (tribes' # tribes \/
                          (gameEvents' # gameEvents
                           /\ gameEvents'[Len(gameEvents')].type = "blessing"))) =>
          LET e == gameEvents'[Len(gameEvents')]
              k == FindIndexById(tribes, e.tribeId)
              gain == tribes'[k].food - tribes[k].food
          IN /\ gameEvents' = Append(gameEvents, e)
             /\ e.type = "blessing"
             /\ Cardinality({j \in 1..Len(gameEvents') : gameEvents'[j].type = "blessing"}) = 1
             /\ k # 0
             /\ 30 * Unit <= gain /\ gain < 80 * Unit
             /\ tribes' = [tribes EXCEPT ![k].food = @ + gain]
             /\ worldEvents' = worldEvents]_vars
\* a call with a blessing has returned
C10_Witness ==
    /\ Returned
    /\ EventsOfType("blessing") # {}
    /\ \E i \in 1..Len(tribes) : tribes[i].food >= 130 * Unit

\* C11 (as stated): a lone villager that enters a call with hunger 94, its
\* tribe with 10 food, leaves it with hunger 98 and with its health lower by
\* the starvation decrement 0.15.
C11_HungerNinetyEight ==
    (Returned /\ calls = 1) =>
        \A i \in 1..Len(villagers) :
            villagers[i].id = 94 =>
                /\ villagers[i].hunger = 98 * Unit
                /\ villagers[i].health = 100 * Unit - STARVATION_DAMAGE
\* C11 (amended): the hunger of a lone, awake villager that enters a call
\* with hunger 94 is raised to 94.04, below the starvation threshold 95, and
\* its health is not lowered by starvation; with hunger 94.96 it is raised to
\* 95 and the health is lowered by 0.15.  The villager then turns to eating,
\* and when it stands within 8 units of the tribe centre it eats in the same
\* call: the returned hunger is 1.2 lower.  An accident apart.
C11_StarvationAtThreshold ==
    (Returned /\ calls = 1) =>
        \A i \in 1..Len(villagers) :
            LET v == villagers[i]
                ate == IF v.posX = 400 /\ v.posY = 300 THEN 1200000 ELSE 0
                accident == rare = 1 /\ v.health <= 100 * Unit - 20 * Unit
            IN /\ v.id = 94 =>
                    /\ v.hunger = 94 * Unit + 40000 - ate
                    /\ 94 * Unit + 40000 < STARVATION_THRESHOLD
                    /\ (v.health = 100 * Unit \/ accident)
               /\ v.id = 95 =>
                    /\ v.hunger = 95 * Unit - ate
                    /\ 95 * Unit >= STARVATION_THRESHOLD
                    /\ (v.health = 100 * Unit - 150000 \/ accident)
\* the villager that entered with hunger 94, away from the centre, has come
\* through its first call
C11_Witness ==
    /\ Returned /\ calls = 1 /\ rare = 0
    /\ Len(villagers) = 1
    /\ villagers[1].id = 94
    /\ villagers[1].action = "eating"
    /\ villagers[1].hunger = 94 * Unit + HUNGER_RATE
    /\ villagers[1].health = 100 * Unit

\* C12: every tribe a call returns that is not the player's has a villager
\* in the returned list, and no step of a call, the last included, drops a
\* tribe of the player, whether or not it has a living member.
C12_EmptyTribesRemoved ==
    [][CallStep =>
          /\ \A i \in 1..Len(tribes) :
                tribes[i].isPlayerTribe =>
                    \E j \in 1..Len(tribes') :
                        tribes'[j].id = tribes[i].id /\ tribes'[j].isPlayerTribe
          /\ pc' = "ready" =>
                \A j \in 1..Len(tribes') :
                    ~tribes'[j].isPlayerTribe =>
                        \E i \in 1..Len(villagers') :
                            villagers'[i].tribeId = tribes'[j].id /\ ~villagers'[i].isDead]_vars
\* a call returned the player's tribe without a member, and dropped the
\* deserted tribe 2
C12_Witness ==
    /\ Returned
    /\ \E j \in 1..Len(tribes) :
          /\ tribes[j].isPlayerTribe
          /\ \A i \in 1..Len(villagers) : villagers[i].tribeId # tribes[j].id
    /\ Len(tribes) = 2
    /\ \A j \in 1..Len(tribes) : tribes[j].id # 2

\* C13: the first step of a call raises gameTick by exactly 1, no other step
\* of the call changes it, and no step changes gameSpeed, the three toggles,
\* godModeEnabled, selectedTribeId, recentEvents or achievements.
C13_TickAdvancesByOne ==
    [][CallStep =>
          /\ state'.gameTick = state.gameTick + (IF pc \in {"loaded", "ready"} THEN 1 ELSE 0)
          /\ state'.gameSpeed = state.gameSpeed
          /\ state'.immigrationEnabled = state.immigrationEnabled
          /\ state'.tribeSplittingEnabled = state.tribeSplittingEnabled
          /\ state'.randomEventsEnabled = state.randomEventsEnabled
          /\ state'.godModeEnabled = state.godModeEnabled
          /\ state'.selectedTribeId = state.selectedTribeId
          /\ state'.recentEvents = state.recentEvents
          /\ state'.achievements = state.achievements]_vars
\* the second call on a world that entered at tick 5000 has returned
C13_Witness ==
    /\ Returned
    /\ calls = 2
    /\ state.gameTick = MIN_SPLIT_INTERVAL + 2
    /\ state.achievements = <<"First Steps">>

\* the ticks of the events of the given type emitted in the calls so far
TicksOf(type) == {history[k].tick : k \in {j \in 1..Len(history) : history[j].type = type}}

C16_ResultFromArgumentsOnly ==
    /\ pc = "immigration" =>
          (ImmigrationDue <=> (state.immigrationEnabled /\ state.gameTick - 0 > 2000))
    /\ pc = "split" =>
          (SplitDue <=> (state.tribeSplittingEnabled /\ state.gameTick - 0 > 5000))

\* C17: a call leaves the villager records of the array it was given as they
\* were: no step after the one that takes the arguments changes a field of
\* any of them.
C17_InputsUnchanged ==
    [][(CallStep /\ pc \notin {"loaded", "ready"}) => currentVillagers' = currentVillagers]_vars

\* C18: a pass of the villager loop that sets the death flag pushes exactly
\* one death event, carrying the villager's id, its tribe's id and the new
\* tick, and does nothing else for the villager: its action, target and
\* position and the tribe's stockpiles are as before the pass.  No villager
\* has two death events in one call.
C18_DeathShortCircuits ==
    [][pc = "villagers" =>
          LET v == tribeVillagers[vi]
              t == tribes[ti]
              pushed == SubSeq(gameEvents', Len(gameEvents) + 1, Len(gameEvents'))
              flagged == \E i \in 1..Len(villagers) :
                            villagers'[i].isDead /\ ~villagers[i].isDead
          IN /\ Len(pushed) <= 1
             /\ (pushed # <<>> \/ flagged) =>
                   /\ Len(pushed) = 1
                   /\ pushed[1].type = "death"
                   /\ pushed[1].villagerId = v.id
                   /\ pushed[1].tribeId = t.id
                   /\ pushed[1].tick = state.gameTick
                   /\ tribes' = tribes
                   /\ \A i \in 1..Len(villagers) :
                         villagers[i].id = v.id =>
                             /\ villagers'[i].action = villagers[i].action
                             /\ villagers'[i].targetX = villagers[i].targetX
                             /\ villagers'[i].targetY = villagers[i].targetY
                             /\ villagers'[i].posX = villagers[i].posX
                             /\ villagers'[i].posY = villagers[i].posY
             /\ \A j, k \in 1..Len(gameEvents') :
                   (gameEvents'[j].type = "death" /\ gameEvents'[k].type = "death"
                    /\ gameEvents'[j].villagerId = gameEvents'[k].villagerId) => j = k]_vars
\* the starving villager standing at the food store has died in the pass
\* that just ended, the store untouched
C18_Witness ==
    /\ pc = "villagers"
    /\ vi = 2
    /\ gameEvents = <<DeathEvent(MIN_IMMIGRATION_INTERVAL + 1, 1, 1)>>
    /\ tribes[1].food = 10 * Unit

\* the villager of the pass about to run meets the eat rule: hungry after the
\* decay, not eating, food in store
MeetsEatRule ==
    /\ tribeVillagers[vi].hunger + 40000 > 65 * Unit
    /\ tribeVillagers[vi].action # "eating"
    /\ tribes[ti].food > 0
\* the villager of the pass about to run meets the sleep rule: exhausted
\* after the decay, not asleep
MeetsSleepRule ==
    /\ tribeVillagers[vi].energy - 25000 < 15 * Unit
    /\ tribeVillagers[vi].action # "sleeping"
\* the villager of the pass about to run is exhausted when the sleep rule
\* is reached: after the decay and, if it is asleep, the recovery
Exhausted ==
    LET v == tribeVillagers[vi]
    IN v.energy - 25000 + (IF v.action = "sleeping" THEN 600000 ELSE 0) < 15 * Unit
\* the record of the villager of the pass, after the pass
AfterPass == villagers'[FindIndexById(villagers, tribeVillagers[vi].id)]
\* the pass ended in a death, or in the rare end of a task
PassCutShort ==
    \/ Len(gameEvents') > Len(gameEvents)
    \/ rare' > rare /\ AfterPass.action = "idle"

\* C19 (as stated): a villager that meets both the eat rule and the sleep
\* rule in a pass ends the pass eating, its target the tribe centre.
C19_EatBeforeSleep ==
    [][(pc = "villagers" /\ MeetsEatRule /\ MeetsSleepRule /\ ~PassCutShort) =>
          /\ AfterPass.action = "eating"
          /\ AfterPass.targetX = tribes[ti].centerX
          /\ AfterPass.targetY = tribes[ti].centerY]_vars
\* C19 (amended): the sleep rule is applied after the eat rule and overrides
\* it: a villager that meets the eat rule and is exhausted ends the pass
\* sleeping, its target within 20 units of the tribe centre on each axis,
\* also when it was asleep already; a villager that meets the eat rule and is
\* not exhausted ends it eating, its target the tribe centre.
C19_SleepOverridesEat ==
    [][(pc = "villagers" /\ MeetsEatRule /\ ~PassCutShort) =>
          IF Exhausted
          THEN /\ AfterPass.action = "sleeping"
               /\ AfterPass.targetX - tribes[ti].centerX \in -20..20
               /\ AfterPass.targetY - tribes[ti].centerY \in -20..20
          ELSE /\ AfterPass.action = "eating"
               /\ AfterPass.targetX = tribes[ti].centerX
               /\ AfterPass.targetY = tribes[ti].centerY]_vars
\* the hungry and exhausted villager has gone through a pass
C19_Witness ==
    /\ pc = "immigration"
    /\ calls = 1
    /\ Len(villagers) = 1
    /\ villagers[1].id = 19
    /\ villagers[1].hunger = 70 * Unit + HUNGER_RATE
    /\ villagers[1].energy = 10 * Unit - ENERGY_RATE
    /\ villagers[1].action = "sleeping"

\* the pass about to run is that of an idle villager
IdlePass == pc = "villagers" /\ tribeVillagers[vi].action = "idle"

\* C20: when an idle villager picks a task, for every four weights in 0..10,
\* a task whose weight is 0 is never selected and every task whose weight is
\* positive can be selected.
C20_PositiveWeightsOnly ==
    IdlePass =>
        /\ "farming" \in SelectableTasks(tribes[ti]) <=> tribes[ti].priorityFarming > 0
        /\ "building" \in SelectableTasks(tribes[ti]) <=> tribes[ti].priorityBuilding > 0
        /\ "gathering" \in SelectableTasks(tribes[ti]) <=> tribes[ti].priorityGathering > 0
        /\ "research" \in SelectableTasks(tribes[ti]) <=> tribes[ti].priorityResearch > 0

\* the villager of the pass about to run is in flight, with a flee target
InFlight ==
    /\ pc = "villagers"
    /\ tribeVillagers[vi].action = "fleeing"
    /\ Truthy(tribeVillagers[vi].targetX)
    /\ Truthy(tribeVillagers[vi].targetY)
\* ... and is within 10 units of the flee target
FlightOver ==
    DistSq(tribeVillagers[vi].posX, tribeVillagers[vi].posY,
           tribeVillagers[vi].targetX, tribeVillagers[vi].targetY)
        < FLEE_DONE_RADIUS * FLEE_DONE_RADIUS
\* the villager of the pass about to run stands within reach of a hazard
BesideHazard == pc = "villagers" /\ NearbyDanger(dangers, tribeVillagers[vi]) # 0
\* the pass pushed a death event
PassDied == Len(gameEvents') > Len(gameEvents)

Inhabited == {villagers[i].tribeId : i \in {j \in 1..Len(villagers) : ~villagers[j].isDead}}

\* C22: an immigrant joins a tribe of the tribe list that has a living
\* member when it arrives; when no tribe of the list has a living member the
\* immigration step adds no villager, emits no event and leaves the cooldown
\* timer as it was.
C22_ImmigrantJoinsTheLiving ==
    [][pc = "immigration" =>
          /\ villagers' # villagers =>
                /\ villagers' = Append(villagers, villagers'[Len(villagers')])
                /\ villagers'[Len(villagers')].tribeId \in Inhabited
                /\ \E k \in 1..Len(tribes) : tribes[k].id = villagers'[Len(villagers')].tribeId
                /\ gameEvents'[Len(gameEvents')].tribeId = villagers'[Len(villagers')].tribeId
          /\ (\A k \in 1..Len(tribes) : tribes[k].id \notin Inhabited) =>
                /\ villagers' = villagers
                /\ gameEvents' = gameEvents
                /\ lastImmigrationTick' = lastImmigrationTick]_vars
\* an immigrant has joined the second tribe, the player's tribe having no
\* living member
C22_Witness ==
    /\ pc = "split"
    /\ Len(villagers) = 2
    /\ Len(tribes) = 2
    /\ Inhabited = {2}
    /\ villagers[1].id = 42
    /\ villagers[2].tribeId = 2
    /\ EventsOfType("immigration") # {}
    /\ lastImmigrationTick = state.gameTick

\* C23: a call made with an empty tribe list returns; it does not throw.
C23_EmptyTribeListReturns ==
    (calls >= 1 /\ tribes = <<>>) => pc # "threw"

\* C24: an idle villager given a task whose node list is empty (the rocks
\* for building, the trees for gathering) gets the tribe centre as its
\* target, and the pass does not throw.
C24_EmptyNodeListFallsBack ==
    [][IdlePass =>
          /\ pc' # "threw"
          /\ (AfterPass.action = "building" /\ resources.rocks = <<>>) =>
                /\ AfterPass.targetX = tribes[ti].centerX
                /\ AfterPass.targetY = tribes[ti].centerY
          /\ (AfterPass.action = "gathering" /\ resources.trees = <<>>) =>
                /\ AfterPass.targetX = tribes[ti].centerX
                /\ AfterPass.targetY = tribes[ti].centerY]_vars

\* C25: whatever the vitals of the villagers a call is given, every villager
\* it returns has health, energy, hunger and happiness within [0, 100].
C25_VitalsReclamped ==
    Returned =>
        \A i \in 1..Len(villagers) :
            /\ InVitalRange(villagers[i].health) /\ InVitalRange(villagers[i].energy)
            /\ InVitalRange(villagers[i].hunger) /\ InVitalRange(villagers[i].happiness)

\* C26: the colour of a tribe created by a split differs from the colour of
\* every tribe in the list at the moment of the split.
C26_SplitColourUnused ==
    [][SplitStep =>
          \A k \in 1..Len(tribes) : tribes'[Len(tribes')].color # tribes[k].color]_vars

\* C27: every villager of the list has targetX = null exactly when
\* targetY = null exactly when its action is idle; no villager has another
\* action without a target.
C27_ActionAndTargetAgree ==
    \A i \in 1..Len(villagers) :
        /\ (villagers[i].targetX = NULL) <=> (villagers[i].targetY = NULL)
        /\ (villagers[i].targetX = NULL) <=> (villagers[i].action = "idle")
\* the second call has returned a villager that went idle, its target
\* cleared, beside villagers at a task with a target
C27_Witness ==
    /\ Returned
    /\ calls = 2
    /\ \E i, j \in 1..Len(villagers) :
          /\ villagers[i].action = "idle" /\ villagers[i].targetX = NULL
          /\ villagers[i].targetY = NULL
          /\ villagers[j].action \in {"eating", "sleeping", "fleeing", "farming"}
          /\ villagers[j].targetX # NULL /\ villagers[j].targetY # NULL

\* the villager of the pass about to run is at a work task with a target,
\* neither emergency rule fires for it in this pass (when the rules are
\* evaluated, after the decay of the tick: hunger <= 65 or no food in store,
\* and energy >= 15) and no hazard is within 80 units of it
MidTask ==
    /\ pc = "villagers"
    /\ tribeVillagers[vi].action \in {"farming", "building", "gathering", "research"}
    /\ tribeVillagers[vi].targetX # NULL
    /\ tribeVillagers[vi].targetY # NULL
    /\ DecayHunger(tribeVillagers[vi].hunger) <= 65 * Unit \/ tribes[ti].food = 0
    /\ DecayEnergy(tribeVillagers[vi].energy) >= 15 * Unit
    /\ NearbyDanger(dangers, tribeVillagers[vi]) = 0

\* C28: a villager mid-task that no emergency rule and no hazard touches
\* ends the tick with the same action and the same target, or idle with a
\* null target; never with another work action.
C28_NotReassigned ==
    [][MidTask =>
          \/ /\ AfterPass.action = tribeVillagers[vi].action
             /\ AfterPass.targetX = tribeVillagers[vi].targetX
             /\ AfterPass.targetY = tribeVillagers[vi].targetY
          \/ /\ AfterPass.action = "idle"
             /\ AfterPass.targetX = NULL
             /\ AfterPass.targetY = NULL]_vars
\* the farmer at its field, no hazard about, has finished its task in the
\* first call: it is idle, its target cleared, the yield in the store
C28_Witness ==
    /\ Returned
    /\ calls = 1
    /\ worldEvents = <<>>
    /\ dangers = <<>>
    /\ \E i \in 1..Len(villagers) :
          /\ villagers[i].id = 3
          /\ villagers[i].action = "idle"
          /\ villagers[i].targetX = NULL
          /\ villagers[i].posX = 1600 /\ villagers[i].posY = 1236
    /\ \E k \in 1..Len(tribes) : tribes[k].id = 2 /\ tribes[k].food > 100 * Unit

\* the distance (squared) of the villager of the pass from its target,
\* before the pass and after it
FlightLeft ==
    DistSq(tribeVillagers[vi].posX, tribeVillagers[vi].posY,
           tribeVillagers[vi].targetX, tribeVillagers[vi].targetY)
FlightLeftAfter == DistSq(AfterPass.posX, AfterPass.posY, AfterPass.targetX, AfterPass.targetY)

\* C29: a flight ends.  In every tick a living villager in flight, its flee
\* target inside the clamped map area, leaves flight or gets nearer its
\* target (4 units a tick), so that it is released, within 10 units of the
\* target at the latest, after finitely many ticks.
C29_FlightEnds ==
    [][(InFlight
        /\ tribeVillagers[vi].targetX \in 50..(MAP_WIDTH - 50)
        /\ tribeVillagers[vi].targetY \in 50..(MAP_HEIGHT - 50)) =>
          \/ AfterPass.action # "fleeing"
          \/ /\ AfterPass.targetX = tribeVillagers[vi].targetX
             /\ AfterPass.targetY = tribeVillagers[vi].targetY
             /\ FlightLeftAfter < FlightLeft]_vars

\* the villager of the pass is eating at its target (within 8 units) and the
\* pass reaches the work step with that action: it does not end in a death,
\* in sleep or in flight
EatingPass ==
    /\ pc = "villagers"
    /\ tribeVillagers[vi].action = "eating"
    /\ tribeVillagers[vi].targetX # NULL
    /\ tribeVillagers[vi].targetY # NULL
    /\ FlightLeft <= ARRIVAL_RADIUS * ARRIVAL_RADIUS
    /\ ~PassDied
    /\ AfterPass.action \notin {"sleeping", "fleeing"}

\* C30: an eating villager at its target goes idle, its target cleared, when
\* the tribe has no food (no bite: its hunger is that of the decay of the
\* tick, the food is unchanged) or when its hunger after the bite is <= 5;
\* a bite lowers the food by 0.08 and the hunger by 1.2, both floored at 0,
\* and wood, stone and techPoints are unchanged.
C30_EatingEnds ==
    [][EatingPass =>
          LET v == tribeVillagers[vi]
              t == tribes[ti]
              after == tribes'[ti]
              gone == /\ AfterPass.action = "idle"
                      /\ AfterPass.targetX = NULL
                      /\ AfterPass.targetY = NULL
          IN /\ after.wood = t.wood
             /\ after.stone = t.stone
             /\ after.techPoints = t.techPoints
             /\ IF t.food = 0
                THEN /\ gone
                     /\ AfterPass.hunger = Min(100 * Unit, v.hunger + 40000)
                     /\ after.food = 0
                ELSE /\ after.food = Max(0, t.food - 80000)
                     /\ AfterPass.hunger = Max(0, Min(100 * Unit, v.hunger + 40000) - 1200000)
                     /\ AfterPass.hunger <= 5 * Unit => gone
                     /\ (AfterPass.hunger > 5 * Unit /\ rare' = rare) =>
                           /\ AfterPass.action = "eating"
                           /\ AfterPass.targetX = v.targetX
                           /\ AfterPass.targetY = v.targetY]_vars
\* the first call on the two sated eaters has returned: both took a bite
\* and went idle, one with hunger 4.84, the other floored at 0
C30_Witness ==
    /\ Returned
    /\ calls = 1
    /\ Len(villagers) = 3
    /\ villagers[1].id = 71 /\ villagers[1].action = "idle" /\ villagers[1].targetX = NULL
    /\ villagers[1].hunger = 4840000
    /\ villagers[2].id = 72 /\ villagers[2].action = "idle" /\ villagers[2].hunger = 0
    /\ tribes[1].food = 9840000
    /\ tribes[1].wood = 5 * Unit

\* ---------------------------------------------------------------- work and skills
Skills(v) == <<v.skillGathering, v.skillFarming, v.skillBuilding, v.skillResearch>>
\* the target the villager of the pass ends the pass with is within 8 units
\* of the place it started the pass at
AtEndTarget ==
    /\ AfterPass.targetX # NULL
    /\ AfterPass.targetY # NULL
    /\ DistSq(tribeVillagers[vi].posX, tribeVillagers[vi].posY,
              AfterPass.targetX, AfterPass.targetY) <= ARRIVAL_RADIUS * ARRIVAL_RADIUS

\* C31: work changes only the matching stockpile of the worker's own tribe.
\* A pass of the villager loop changes no tribe but the villager's own; a
\* villager that ends the pass farming, gathering, building or researching
\* raises the food, wood, stone or techPoints of its tribe, and nothing
\* else of it, when it stands within 8 units of its target, and changes
\* nothing when it stands farther away; a pass in which the villager dies
\* changes nothing of the tribe.  Every skill of every villager of a
\* call is, at every point of the call, the value the call was given or that
\* value plus 1, and never above 100.
C31_WorkFeedsOwnStockpile ==
    /\ [](\A i \in 1..Len(villagers) : \A j \in 1..Len(currentVillagers) :
            villagers[i].id = currentVillagers[j].id =>
               \A k \in 1..4 :
                  /\ Skills(villagers[i])[k] - Skills(currentVillagers[j])[k] \in {0, 1}
                  /\ Skills(villagers[i])[k] <= 100)
    /\ [][(pc = "villagers" /\ pc' # "threw") =>
            LET t == tribes[ti]
                after == tribes'[ti]
                a == AfterPass.action
            IN /\ \A k \in 1..Len(tribes) : k # ti => tribes'[k] = tribes[k]
               /\ PassDied => after = t
               /\ after = [t EXCEPT !.food = after.food, !.wood = after.wood,
                                    !.stone = after.stone, !.techPoints = after.techPoints]
               /\ (a = "farming" /\ ~PassDied) =>
                     /\ after = [t EXCEPT !.food = after.food]
                     /\ IF AtEndTarget THEN after.food > t.food ELSE after.food = t.food
               /\ (a = "gathering" /\ ~PassDied) =>
                     /\ after = [t EXCEPT !.wood = after.wood]
                     /\ IF AtEndTarget THEN after.wood > t.wood ELSE after.wood = t.wood
               /\ (a = "building" /\ ~PassDied) =>
                     /\ after = [t EXCEPT !.stone = after.stone]
                     /\ IF AtEndTarget THEN after.stone > t.stone ELSE after.stone = t.stone
               /\ (a = "research" /\ ~PassDied) =>
                     /\ after = [t EXCEPT !.techPoints = after.techPoints]
                     /\ IF AtEndTarget THEN after.techPoints > t.techPoints
                        ELSE after.techPoints = t.techPoints
               /\ (AfterPass.targetX # NULL /\ ~AtEndTarget) => after = t]_vars
\* a villager of the call has gained a point of skill and is still at work
C31_Witness ==
    /\ pc = "villagers"
    /\ \E i \in 1..Len(villagers) : \E j \in 1..Len(currentVillagers) :
          /\ villagers[i].id = currentVillagers[j].id
          /\ villagers[i].action \in {"farming", "gathering", "building", "research"}
          /\ \E k \in 1..4 : Skills(villagers[i])[k] = Skills(currentVillagers[j])[k] + 1

\* ---------------------------------------------------------------- new hazards
\* the hazard step of the call is adding a WorldEvent
HazardBorn == pc = "hazard" /\ Len(worldEvents') > Len(worldEvents)
\* the call is past its hazard step, which added a WorldEvent
HazardNew ==
    /\ pc = "finish"
    /\ gameEvents # <<>>
    /\ gameEvents[Len(gameEvents)].type = "disaster"

\* C32: a hazard created in a tick is not in the hazard index of that tick.
\* The index is built from the WorldEvents the call was given and stays as
\* built to the end of the call; the step that creates a hazard and the
\* steps after it change no villager record; and the call returns the new
\* hazard with the drawn duration less 1, every other field as drawn.
C32_NewHazardWaitsATick ==
    /\ []((pc \in {"villagers", "immigration", "split", "hazard"}) =>
             dangers = DangersOf(worldEvents))
    /\ [][/\ (pc \in {"villagers", "immigration", "split", "hazard", "finish"}) =>
                dangers' = dangers
          /\ HazardBorn =>
                /\ villagers' = villagers
                /\ worldEvents' = Append(worldEvents, worldEvents'[Len(worldEvents')])
                /\ worldEvents'[Len(worldEvents')].duration \in 200..499
                /\ Len(dangers') = Len(DangersOf(worldEvents')) - 1
          /\ pc = "finish" =>
                /\ \A i \in 1..Len(villagers') : \E j \in 1..Len(villagers) :
                      villagers'[i] = villagers[j]
                /\ HazardNew =>
                      LET born == worldEvents[Len(worldEvents)]
                      IN /\ worldEvents' # <<>>
                         /\ worldEvents'[Len(worldEvents')] =
                               [born EXCEPT !.duration = born.duration - 1]]_vars
\* a call has returned a hazard it created, its duration the drawn 200 less
\* 1, which the hazard index of the call does not hold
C32_Witness ==
    /\ Returned
    /\ gameEvents # <<>>
    /\ gameEvents[Len(gameEvents)].type = "disaster"
    /\ worldEvents # <<>>
    /\ worldEvents[Len(worldEvents)].duration = 199
    /\ dangers # <<>>
    /\ \A k \in 1..Len(dangers) :
          <<dangers[k].x, dangers[k].y>> #
             <<worldEvents[Len(worldEvents)].posX, worldEvents[Len(worldEvents)].posY>>

\* ---------------------------------------------------------------- hazard generation
\* the events of the call so far that the hazard generator emits
Omens == SelectSeq(gameEvents, LAMBDA e : e.type \in {"disaster", "blessing"})
InCall == pc \in {"villagers", "immigration", "split", "hazard", "finish"}

\* C33: hazard generation is gated and single.  With randomEventsEnabled
\* false a call emits no disaster or blessing event and adds no WorldEvent;
\* a call emits at most one such event; only the hazard step adds a
\* WorldEvent, one at most, appended to the list, and it adds one exactly
\* when it emits a disaster event; and the end of the call keeps of every
\* WorldEvent the record with the duration less 1, in order, or drops it.
C33_HazardsGatedAndSingle ==
    /\ [](/\ Len(Omens) <= 1
          /\ ~state.randomEventsEnabled => Omens = <<>>)
    /\ [][InCall =>
            LET born == Len(worldEvents') > Len(worldEvents)
                disaster == /\ Len(gameEvents') = Len(gameEvents) + 1
                            /\ gameEvents'[Len(gameEvents')].type = "disaster"
            IN /\ pc \in {"villagers", "immigration", "split"} =>
                    /\ worldEvents' = worldEvents
                    /\ Omens' = Omens
               /\ pc = "hazard" =>
                    /\ ~state.randomEventsEnabled =>
                          worldEvents' = worldEvents /\ gameEvents' = gameEvents
                    /\ born <=> disaster
                    /\ born => /\ Len(worldEvents') = Len(worldEvents) + 1
                               /\ SubSeq(worldEvents', 1, Len(worldEvents)) = worldEvents
                    /\ ~born => worldEvents' = worldEvents
               /\ pc = "finish" =>
                    /\ gameEvents' = gameEvents
                    /\ worldEvents' =
                          SelectSeq([i \in 1..Len(worldEvents) |->
                                        [worldEvents[i] EXCEPT !.duration = @ - 1]],
                                    LAMBDA e : e \in Range(worldEvents'))]_vars
\* a call with random events enabled has returned a new hazard after the
\* two it was given, with one disaster event; the older of the two expired
C33_Witness ==
    /\ Returned
    /\ state.randomEventsEnabled
    /\ Len(Omens) = 1
    /\ Omens[1].type = "disaster"
    /\ Len(worldEvents) = 2
    /\ worldEvents[1].id = 2 /\ worldEvents[1].duration = 1
    /\ worldEvents[2].duration \in {199, 498}

\* ---------------------------------------------------------------- split territory
\* C34: the territory centre of a tribe created by a split is at least 300
\* units away from the centre of every tribe of the list the split found,
\* the source tribe included.
C34_SplitCentreApart ==
    [][SplitStep =>
          LET newTribe == tribes'[Len(tribes')]
          IN \A i \in 1..Len(tribes) :
                DistSq(tribes[i].centerX, tribes[i].centerY, newTribe.centerX, newTribe.centerY)
                   >= MIN_TRIBE_DISTANCE * MIN_TRIBE_DISTANCE]_vars

\* ---------------------------------------------------------------- ids
\* C35: villager and tribe ids stay unique.  Between the calls, whatever
\* calls and summonings came before, no two villagers of the list share an
\* id and no two tribes share an id.
C35_IdsUnique ==
    (pc \in {"loaded", "ready"}) =>
       /\ \A i, j \in 1..Len(villagers) : villagers[i].id = villagers[j].id => i = j
       /\ \A i, j \in 1..Len(tribes) : tribes[i].id = tribes[j].id => i = j

\* ---------------------------------------------------------------- orphans
\* C36: no orphan villagers.  In a run that starts with every villager in a
\* tribe of the tribe list, every villager of the list carries, at every
\* point of every call and in every result, the id of a tribe of the list.
C36_NoOrphans ==
    \A i \in 1..Len(villagers) : \E k \in 1..Len(tribes) : tribes[k].id = villagers[i].tribeId
\* the first call on the world of three tribes has returned: the second
\* tribe, without members, is removed; the walker of the third is in place
C36_Witness ==
    /\ Returned
    /\ calls = 1
    /\ Len(tribes) = 2
    /\ tribes[1].id = 1 /\ tribes[2].id = 3
    /\ Len(villagers) = 1
    /\ villagers[1].id = 33 /\ villagers[1].tribeId = 3

\* ---------------------------------------------------------------- death events
\* the death events of the calls of the run so far that name the villager id
DeathsOf(id) == {k \in 1..Len(history) : history[k].type = "death" /\ history[k].villagerId = id}

\* C37: over the calls of a run, each given the result of the one before, a
\* villager id appears in at most one death event.
C37_OneDeathEach ==
    \A k \in 1..Len(history) :
       history[k].type = "death" => Cardinality(DeathsOf(history[k].villagerId)) <= 1

\* ---------------------------------------------------------------- idle wander
\* the pass about to run can come to the movement step with no target
WanderReached ==
    /\ pc = "villagers"
    /\ \E c \in DecisionOutcomes(tribeVillagers[vi], tribes[ti], dangers, state.gameTick,
                                 rare < MaxRare) :
          /\ ~c.dead
          /\ ~c.threw
          /\ (c.v.targetX = NULL \/ c.v.targetY = NULL)

\* C38: in a run that starts with a target on every villager that is not
\* idle, every villager that is not idle has a target at every point of the
\* run; no pass comes to the movement step without a target, so that the
\* wander branch is never taken; and the position of a villager changes only
\* in its own pass, by the step toward the target it ends the pass with, or
\* in a split that moves it to the new tribe.
C38_NoIdleWander ==
    /\ [](/\ ~WanderReached
          /\ \A i \in 1..Len(villagers) :
                villagers[i].action # "idle" =>
                   villagers[i].targetX # NULL /\ villagers[i].targetY # NULL)
    /\ [][CallStep =>
            \A i \in 1..Len(villagers') : \A j \in 1..Len(villagers) :
               (/\ villagers'[i].id = villagers[j].id
                /\ <<villagers'[i].posX, villagers'[i].posY>> #
                      <<villagers[j].posX, villagers[j].posY>>) =>
                  \/ /\ pc = "villagers"
                     /\ villagers[j].id = tribeVillagers[vi].id
                     /\ villagers'[i].targetX # NULL
                     /\ villagers'[i].targetY # NULL
                     /\ LET from == [villagers'[i] EXCEPT !.posX = villagers[j].posX,
                                                          !.posY = villagers[j].posY]
                        IN villagers'[i] = StepToward(from)
                  \/ /\ SplitStep
                     /\ villagers'[i].tribeId # villagers[j].tribeId
                     /\ villagers'[i].tribeId = tribes'[Len(tribes')].id]_vars
\* the second call on the sated eaters has returned: 71, idle with no target
\* after the first, was given research and is 2 units on its way
C38_Witness ==
    /\ Returned
    /\ calls = 2
    /\ Len(villagers) = 3
    /\ villagers[1].id = 71
    /\ villagers[1].action = "research"
    /\ villagers[1].targetX = 400 /\ villagers[1].targetY = 270
    /\ villagers[1].posX = 400 /\ villagers[1].posY = 298

====
